---- MODULE Spec2Model ----
(***************************************************************************)
(* Model of the retrieval services of AI-Chat-APP:                         *)
(*   src/src/py_rag/simple_rag_service.py   (SimpleRAG, per-user store)    *)
(*   src/src/services/ragPipelineService.py (command-line pipeline)        *)
(* A Python str is a sequence of one-character strings.  The texts that    *)
(* are stored (file contents, chunks) are periodic and are kept as a       *)
(* window on their period, [pat, off, len]; Chars gives their characters.  *)
(* A Python float score is the exact rational <<numerator, denominator>>   *)
(* in lowest terms.                                                        *)
(***************************************************************************)
EXTENDS Integers, Sequences, FiniteSets, TLC

(***************************************************************************)
(* Bounds of the model and constants of the program.                       *)
(***************************************************************************)
MaxDocs == 3          \* a tenant holds at most this many chunks
MaxTopK == 2          \* largest explicit top_k of a request
MinTopKBelow == 2     \* requests carry top_k down to -MinTopKBelow
MaxChunks == 3        \* a text to chunk spans at most this many windows
MaxStored == 2        \* a storage file holds at most this many entries
ChunkSize == 1000     \* text[i:i+1000], range(0, len(text), 1000)
DefaultTopK == 5      \* QueryRequest.top_k: int = 5
AutoJunkMin == 200    \* difflib: autojunk applies when len(b) >= 200
ConversationalMaxTokens == 3   \* len(query_lower.split()) <= 3

None == "<None>"      \* Python's None
DefaultUser == "default"

(***************************************************************************)
(* Strings.                                                                *)
(***************************************************************************)
Str0 == << >>

\* a list (a str) given by its elements, as a value
List(f) == f \o << >>

\* a dict given by its items, as a value
Dict(f) == f @@ << >>

UpperToLower == [c \in {"H", "T", "X"} |->
                    CASE c = "H" -> "h" [] c = "T" -> "t" [] c = "X" -> "x"]

\* str.lower(), character by character
LowerChar(c) == IF c \in DOMAIN UpperToLower THEN UpperToLower[c] ELSE c

Lower(s) == List([i \in 1..Len(s) |-> LowerChar(s[i])])

\* the characters \w matches; everything else separates words
IsWordChar(c) == c \notin {" ", ",", ".", "?", "\n", "'"}

\* the characters str.split() splits on
IsSpace(c) == c \in {" ", "\n"}

\* the last position of the run of word characters that holds position i
RunEnd(s, i) ==
    LET last(j) == j = Len(s) \/ ~IsWordChar(s[j + 1])
    IN  CHOOSE j \in i..Len(s) : last(j) /\ \A k \in i..(j - 1) : ~last(k)

\* the maximal runs of word characters, as (first, last) pairs
WordRuns(s) ==
    LET starts == {i \in 1..Len(s) : IsWordChar(s[i]) /\ (i = 1 \/ ~IsWordChar(s[i - 1]))}
    IN  {<<i, RunEnd(s, i)>> : i \in starts}

\* set(re.findall(r'\w+', s))
WordSet(s) == {SubSeq(s, r[1], r[2]) : r \in WordRuns(s)}

\* len(s.split())
SplitCount(s) ==
    Cardinality({i \in 1..Len(s) : ~IsSpace(s[i]) /\ (i = 1 \/ IsSpace(s[i-1]))})

\* keyword in s  (substring test)
Contains(s, kw) ==
    \E i \in 0..(Len(s) - Len(kw)) : \A j \in 1..Len(kw) : s[i + j] = kw[j]

\* stored texts: the string whose i-th character is pat[(off + i - 1) mod |pat|]
Text(pat) == [pat |-> pat, off |-> 0, len |-> Len(pat)]

Fill(pat, n) == [pat |-> pat, off |-> 0, len |-> n]

Chars(t) == List([i \in 1..t.len |-> t.pat[((t.off + i - 1) % Len(t.pat)) + 1]])

\* t[lo:hi] for 0 <= lo < hi <= len(t)
Slice(t, lo, hi) == [pat |-> t.pat, off |-> (t.off + lo) % Len(t.pat), len |-> hi - lo]

\* Chunks with one window too many when len(text) is a multiple of 1000
ChunksOneMore(text) ==
    LET n == text.len
    IN  List([c \in 1..((n \div ChunkSize) + 1) |->
                LET lo == (c - 1) * ChunkSize
                    hi == IF lo + ChunkSize < n THEN lo + ChunkSize ELSE n
                IN  Slice(text, lo, hi)])

\* Chunks that keeps whole windows only and drops a shorter last one
ChunksWholeOnly(text) ==
    List([c \in 1..(text.len \div ChunkSize) |->
            Slice(text, (c - 1) * ChunkSize, c * ChunkSize)])

\* text[i:i+1000] for i in range(0, len(text), 1000)
Chunks(text) ==
    LET n == text.len
        cnt == Cardinality({i \in 0..(n - 1) : i % ChunkSize = 0})
    IN  List([c \in 1..cnt |->
                LET lo == (c - 1) * ChunkSize
                    hi == IF lo + ChunkSize < n THEN lo + ChunkSize ELSE n
                IN  Slice(text, lo, hi)])

(***************************************************************************)
(* Scores: exact rationals <<num, den>>, den > 0, in lowest terms.         *)
(***************************************************************************)
RECURSIVE GCD(_, _)
GCD(a, b) == IF b = 0 THEN a ELSE GCD(b, a % b)

Rat(n, d) == LET g == GCD(n, d) IN IF n = 0 THEN <<0, 1>> ELSE <<n \div g, d \div g>>

RatLess(x, y) == x[1] * y[2] < y[1] * x[2]

RatLeq(x, y) == x[1] * y[2] <= y[1] * x[2]

(***************************************************************************)
(* difflib.SequenceMatcher(None, a, b).ratio(), positions counted from 0.  *)
(***************************************************************************)
\* __chain_b: with autojunk, an element of b occurring more than
\* len(b) // 100 + 1 times is "popular" and is dropped from b2j
PopularIn(b, c) ==
    /\ Len(b) >= AutoJunkMin
    /\ Cardinality({j \in 1..Len(b) : b[j] = c}) > (Len(b) \div 100) + 1

\* j2len[j] while the outer loop is at i: the length of the run of equal,
\* indexed (not popular) elements that ends at a[i], b[j] inside the window
J2Len(a, b, pop, alo, blo, i, j) ==
    LET room == IF i - alo < j - blo THEN i - alo + 1 ELSE j - blo + 1
    IN  CHOOSE k \in 0..room :
            /\ \A t \in 0..(k - 1) : a[i - t + 1] = b[j - t + 1] /\ b[j - t + 1] \notin pop
            /\ k = room \/ a[i - k + 1] # b[j - k + 1] \/ b[j - k + 1] \in pop

\* the first loop pair after the scan: extend the block to the left
ExtendBack(a, b, alo, blo, i, j) ==
    LET room == IF i - alo < j - blo THEN i - alo ELSE j - blo
    IN  CHOOSE k \in 0..room :
            /\ \A t \in 0..(k - 1) : a[i - t] = b[j - t]
            /\ k = room \/ a[i - k] # b[j - k]

\* and to the right; i, j are the first positions after the block
ExtendForward(a, b, ahi, bhi, i, j) ==
    LET room == IF ahi - i < bhi - j THEN ahi - i ELSE bhi - j
    IN  CHOOSE k \in 0..room :
            /\ \A t \in 1..k : a[i + t] = b[j + t]
            /\ k = room \/ a[i + k + 1] # b[j + k + 1]

\* the scan of find_longest_match: the first pair (i, j), in scan order, at
\* which the greatest run k ends ("if k > bestsize"), as <<besti, bestj, k>>
LongestRun(a, b, pop, alo, ahi, blo, bhi) ==
    LET \* b2j[c], inside the window: where the indexed element c occurs in b
        b2j(c) == IF c \in pop THEN {} ELSE {j \in blo..(bhi - 1) : b[j + 1] = c}
        cands == UNION {{<<i, j, J2Len(a, b, pop, alo, blo, i, j)>> : j \in b2j(a[i + 1])} :
                        i \in alo..(ahi - 1)}
        before(p, q) == p[1] < q[1] \/ (p[1] = q[1] /\ p[2] < q[2])
    IN  IF cands = {} THEN <<alo, blo, 0>>
        ELSE LET best == CHOOSE p \in cands :
                            \A q \in cands : q[3] < p[3] \/ (q[3] = p[3] /\ ~before(q, p))
             IN  <<best[1] - best[3] + 1, best[2] - best[3] + 1, best[3]>>

\* the block m grown to the left
GrowBack(a, b, alo, blo, m) ==
    LET back == ExtendBack(a, b, alo, blo, m[1], m[2])
    IN  <<m[1] - back, m[2] - back, m[3] + back>>

\* the block m grown to the right
GrowForward(a, b, ahi, bhi, m) ==
    <<m[1], m[2], m[3] + ExtendForward(a, b, ahi, bhi, m[1] + m[3], m[2] + m[3])>>

\* find_longest_match(alo, ahi, blo, bhi) -> <<besti, bestj, bestsize>>
FindLongestMatch(a, b, pop, alo, ahi, blo, bhi) ==
    GrowForward(a, b, ahi, bhi,
                GrowBack(a, b, alo, blo, LongestRun(a, b, pop, alo, ahi, blo, bhi)))

\* get_matching_blocks: the total size of the blocks found in the window,
\* m being its longest match
RECURSIVE MatchedChars(_, _, _, _, _, _, _)
BlocksAround(a, b, pop, alo, ahi, blo, bhi, m) ==
    IF m[3] = 0 THEN 0
    ELSE m[3] + (IF alo < m[1] /\ blo < m[2]
                 THEN MatchedChars(a, b, pop, alo, m[1], blo, m[2]) ELSE 0)
              + (IF m[1] + m[3] < ahi /\ m[2] + m[3] < bhi
                 THEN MatchedChars(a, b, pop, m[1] + m[3], ahi, m[2] + m[3], bhi) ELSE 0)

MatchedChars(a, b, pop, alo, ahi, blo, bhi) ==
    BlocksAround(a, b, pop, alo, ahi, blo, bhi,
                 FindLongestMatch(a, b, pop, alo, ahi, blo, bhi))

\* ratio() = 2.0 * matches / (len(a) + len(b)), 1.0 when both are empty
SequenceRatio(a, b) ==
    IF Len(a) + Len(b) = 0 THEN <<1, 1>>
    ELSE Rat(2 * MatchedChars(a, b, {c \in {a[i] : i \in 1..Len(a)} : PopularIn(b, c)},
                              0, Len(a), 0, Len(b)),
             Len(a) + Len(b))

\* a distance in place of the score: 1 - combined_score
CombinedDistance(common, total, seq) ==
    Rat(10 * total * seq[2] - (7 * common * seq[2] + 3 * seq[1] * total), 10 * total * seq[2])

\* (word_similarity * 0.7) + (sequence_similarity * 0.3), with
\* word_similarity = common / total and sequence_similarity = seq
CombinedScore(common, total, seq) ==
    Rat(7 * common * seq[2] + 3 * seq[1] * total, 10 * total * seq[2])

\* the two strings of simple_similarity, already lower case
LowerSimilarity(query_lower, text_lower, query_words) ==
    IF query_words = {} THEN <<0, 1>>
    ELSE CombinedScore(Cardinality(query_words \cap WordSet(text_lower)),
                       Cardinality(query_words),
                       SequenceRatio(query_lower, text_lower))

\* SimpleRAG.simple_similarity
simple_similarity(query, text) ==
    LowerSimilarity(Lower(query), Lower(text), WordSet(Lower(query)))

(***************************************************************************)
(* Python containers.                                                      *)
(***************************************************************************)
\* seq[:k]
SliceTo(seq, k) ==
    LET n == Len(seq)
        stop == IF k >= 0 THEN (IF k < n THEN k ELSE n)
                ELSE (IF n + k > 0 THEN n + k ELSE 0)
    IN  SubSeq(seq, 1, stop)

\* dict.get that falls back to the "default" user's entry
DictGetOrDefault(d, key) ==
    IF key \in DOMAIN d THEN d[key]
    ELSE IF DefaultUser \in DOMAIN d THEN d[DefaultUser] ELSE << >>

\* dict.get(key, [])
DictGet(d, key) == IF key \in DOMAIN d THEN d[key] ELSE << >>

\* d[key] = value
DictSet(d, key, value) == Dict([x \in DOMAIN d \cup {key} |-> IF x = key THEN value ELSE d[x]])

\* del d[key]
DictDel(d, key) == Dict([x \in DOMAIN d \ {key} |-> d[x]])

EmptyDict == << >>

\* the order of (score, i) tuples: by score, then by index
TupleLess(x, y) == RatLess(x[1], y[1]) \/ (x[1] = y[1] /\ x[2] < y[2])

\* SortReverse left out: the list as it was built
SortSkipped(sims) == sims

\* SortReverse with equal scores kept in insertion order (a stable sort on
\* the score alone)
RECURSIVE SortByScoreOnly(_)
SortByScoreOnly(sims) ==
    IF sims = << >> THEN << >>
    ELSE LET top == CHOOSE i \in 1..Len(sims) :
                        \A j \in 1..Len(sims) :
                            \/ j = i
                            \/ RatLess(sims[j][1], sims[i][1])
                            \/ (sims[j][1] = sims[i][1] /\ i < j)
             rest == List([j \in 1..(Len(sims) - 1) |->
                              IF j < top THEN sims[j] ELSE sims[j + 1]])
         IN  <<sims[top]>> \o SortByScoreOnly(rest)

\* similarities.sort(reverse=True): greatest tuple first
RECURSIVE SortReverse(_)
SortReverse(sims) ==
    IF sims = << >> THEN << >>
    ELSE LET top == CHOOSE i \in 1..Len(sims) :
                        \A j \in 1..Len(sims) : j = i \/ TupleLess(sims[j], sims[i])
             rest == List([j \in 1..(Len(sims) - 1) |->
                              IF j < top THEN sims[j] ELSE sims[j + 1]])
         IN  <<sims[top]>> \o SortReverse(rest)

(***************************************************************************)
(* SimpleRAG: user_documents and user_metadatas are dicts user_id -> list. *)
(* The metadata lists hold references to dict objects; heap maps a         *)
(* reference to the dict's contents, so that two lists can share a dict.   *)
(***************************************************************************)
EmptyResult == [ids |-> << >>, distances |-> << >>, metadatas |-> << >>, documents |-> << >>]

\* f"doc_{idx}"
DocId(idx) == <<"doc_", idx>>

\* SimpleRAG.get_user_document_count
get_user_document_count(docs, user_id) == Len(DictGet(docs, user_id))

\* NewRef when one module-level dict is reused for every ingest
NewRefShared(hp) == 1

\* the reference of a newly created dict object
NewRef(hp) == CHOOSE r \in 1..(Cardinality(DOMAIN hp) + 1) :
                  r \notin DOMAIN hp /\ \A q \in 1..(r - 1) : q \in DOMAIN hp

\* dict objects no list refers to any more are reclaimed
Collect(metas, hp) ==
    LET live == UNION {{metas[u][i] : i \in 1..Len(metas[u])} : u \in DOMAIN metas}
    IN  Dict([r \in DOMAIN hp \cap live |-> hp[r]])

\* "for meta in metadatas: meta['user_id'] = user_id"
StampUser(hp, refs, user_id) ==
    Dict([r \in DOMAIN hp |->
            IF \E i \in 1..Len(refs) : refs[i] = r
            THEN [hp[r] EXCEPT !.user_id = user_id] ELSE hp[r]])

\* SimpleRAG.add_documents with a metadatas list (of references)
add_documents(docs, metas, hp, texts, user_id, metadatas) ==
    IF texts = << >>
    THEN [docs |-> docs, metas |-> metas, heap |-> hp,
          ret |-> [count |-> 0, total |-> get_user_document_count(docs, user_id)]]
    ELSE LET hp1 == StampUser(hp, metadatas, user_id)
             fresh == user_id \notin DOMAIN docs
             docs1 == IF fresh THEN DictSet(docs, user_id, << >>) ELSE docs
             metas1 == IF fresh THEN DictSet(metas, user_id, << >>) ELSE metas
             docs2 == DictSet(docs1, user_id, docs1[user_id] \o texts)
             metas2 == DictSet(metas1, user_id, metas1[user_id] \o metadatas)
         IN  [docs |-> docs2, metas |-> metas2, heap |-> hp1,
              ret |-> [count |-> Len(texts), total |-> Len(docs2[user_id])]]

\* lines 108-115 of SimpleRAG.query: score every document, sort
Similarities(user_docs, query) ==
    SortReverse(List([i \in 1..Len(user_docs) |->
                         <<simple_similarity(query, Chars(user_docs[i])), i - 1>>]))

\* line 118: top_results = similarities[:top_k]
TopResults(similarities, top_k) == SliceTo(similarities, top_k)

\* lines 120-125: the four arrays; user_metas[idx] raises IndexError when
\* the metadata list is shorter than the document list
BuildResults(user_docs, user_metas, hp, top_results) ==
    IF \E n \in 1..Len(top_results) : top_results[n][2] + 1 > Len(user_metas)
    THEN [raised |-> "IndexError", result |-> EmptyResult]
    ELSE [raised |-> "",
          result |->
            [ids |-> List([n \in 1..Len(top_results) |-> DocId(top_results[n][2])]),
             distances |-> List([n \in 1..Len(top_results) |-> top_results[n][1]]),
             metadatas |-> List([n \in 1..Len(top_results) |->
                                   hp[user_metas[top_results[n][2] + 1]]]),
             documents |-> List([n \in 1..Len(top_results) |->
                                   user_docs[top_results[n][2] + 1]])]]

\* SimpleRAG.query
SimpleRAG_query(docs, metas, hp, query, user_id, top_k) ==
    LET user_docs == DictGet(docs, user_id)
        user_metas == DictGet(metas, user_id)
    IN  IF Len(user_docs) = 0
        THEN [raised |-> "", result |-> EmptyResult]
        ELSE BuildResults(user_docs, user_metas, hp,
                          TopResults(Similarities(user_docs, query), top_k))

\* clear_user_documents that forgets the document list
clear_keeps_documents(docs, metas, user_id) ==
    [docs |-> docs,
     metas |-> IF user_id \in DOMAIN metas THEN DictDel(metas, user_id) ELSE metas]

\* SimpleRAG.clear_user_documents
SimpleRAG_clear_user_documents(docs, metas, user_id) ==
    [docs |-> IF user_id \in DOMAIN docs THEN DictDel(docs, user_id) ELSE docs,
     metas |-> IF user_id \in DOMAIN metas THEN DictDel(metas, user_id) ELSE metas]

(***************************************************************************)
(* Requests: files on disk, users, queries, top_k.                         *)
(***************************************************************************)
TextShort == Text(<<"a", "b", " ", "c">>)
TextEmpty == Text(Str0)
TextGreet == Text(<<"H", "i", " ", "c">>)
TextBlock == Fill(<<"a", "b", " ">>, 2 * ChunkSize)
TextLong == Fill(<<"H", "i", " ", "c", " ">>, ChunkSize + 1)

Files ==
    {[path |-> "short.txt", suffix |-> <<".", "t", "x", "t">>, readable |-> TRUE, text |-> TextShort],
     [path |-> "greet.TXT", suffix |-> <<".", "T", "X", "T">>, readable |-> TRUE, text |-> TextGreet],
     [path |-> "block.docx", suffix |-> <<".", "d", "o", "c", "x">>, readable |-> TRUE, text |-> TextBlock],
     [path |-> "long.pdf", suffix |-> <<".", "p", "d", "f">>, readable |-> TRUE, text |-> TextLong],
     [path |-> "empty.txt", suffix |-> <<".", "t", "x", "t">>, readable |-> TRUE, text |-> TextEmpty],
     [path |-> "notes.md", suffix |-> <<".", "m", "d">>, readable |-> TRUE, text |-> TextShort],
     [path |-> "broken.docx", suffix |-> <<".", "d", "o", "c", "x">>, readable |-> FALSE, text |-> TextShort]}

FileAt(path) == CHOOSE f \in Files : f.path = path

Users == {"u1"}
RequestUsers == Users \cup {None}
Tenants == Users \cup {DefaultUser}
Sources == {None}
Queries == {<<"a", "b">>, <<"H", "i", " ", "c">>, <<",">>}
TopKs == ((0 - MinTopKBelow)..MaxTopK) \cup {DefaultTopK}

\* x or y
PyOr(x, y) == IF x = None \/ x = "" THEN y ELSE x

\* _read_text_file without the test of the suffix
read_any_suffix(f) == IF f.readable THEN f.text ELSE TextEmpty

\* _read_text_file: "" for an unsupported suffix and for any read error
read_text_file(f) ==
    LET file_ext == Lower(f.suffix)
    IN  IF file_ext \in {<<".", "t", "x", "t">>, <<".", "d", "o", "c", "x">>, <<".", "p", "d", "f">>}
        THEN (IF f.readable THEN f.text ELSE TextEmpty)
        ELSE TextEmpty

\* ingest_file
ingest_file(docs, metas, hp, file_path, source, user_id) ==
    LET text == read_text_file(FileAt(file_path))
        chunks == Chunks(text)
        ref == NewRef(hp)
        meta == [text |-> text, source |-> PyOr(source, file_path),
                 user_id |-> PyOr(user_id, DefaultUser)]
        hp1 == DictSet(hp, ref, meta)
        metadatas == List([c \in 1..Len(chunks) |-> ref])
    IN  IF text.len = 0
        THEN [docs |-> docs, metas |-> metas, heap |-> hp,
              ret |-> [count |-> 0, ids |-> << >>, error |-> "No readable text"]]
        ELSE add_documents(docs, metas, hp1, chunks, PyOr(user_id, DefaultUser), metadatas)

(***************************************************************************)
(* State.                                                                  *)
(***************************************************************************)
VARIABLES
    user_documents,     \* rag.user_documents
    user_metadatas,     \* rag.user_metadatas
    heap,               \* the metadata dict objects
    response,           \* the request being answered and its reply, or Idle
    loop,               \* the handler the event loop is running, step by step
    worker,             \* the handler a pool thread is running, step by step
    storage_file,       \* document_storage.json
    metadata_file,      \* document_metadata.json
    output,             \* what the last run of ragPipelineService.py printed
    working_documents,  \* documents of simple_working_rag.py
    working_metadatas,  \* metadatas of simple_working_rag.py
    call,               \* the function under evaluation and its arguments
    value,              \* the value it returned
    rag,                \* rag = LocalRAG(): documents, metadatas, embeddings, index
    vectorstore,        \* what the Pinecone index behind _vectorstore holds
    pending             \* the collaborator call a rag_impl request waits for

ragVars == <<user_documents, user_metadatas, heap>>
taskVars == <<loop, worker>>
cliVars == <<storage_file, metadata_file, output>>
workingVars == <<working_documents, working_metadatas>>
pureVars == <<call, value>>
localVars == <<rag>>
remoteVars == <<vectorstore, pending>>
vars == <<user_documents, user_metadatas, heap, response, loop, worker,
          storage_file, metadata_file, output,
          working_documents, working_metadatas, call, value,
          rag, vectorstore, pending>>

RECURSIVE SumLen(_, _)
SumLen(docs, keys) ==
    IF keys = {} THEN 0
    ELSE LET u == CHOOSE x \in keys : TRUE
         IN  Len(docs[u]) + SumLen(docs, keys \ {u})

\* the chunks held for all users together
TotalChunks(docs) == SumLen(docs, DOMAIN docs)

Request(op, user_id, path, source, query, top_k) ==
    [op |-> op, user_id |-> user_id, path |-> path, source |-> source,
     query |-> query, top_k |-> top_k]

Reply(req, status, body) == [req |-> req, status |-> status, body |-> body]

\* no request is being answered
Idle == Reply(Request("idle", None, "", None, Str0, 0), 0, [none |-> TRUE])

\* rag = SimpleRAG(), no request under way
InitService ==
    /\ user_documents = EmptyDict
    /\ user_metadatas = EmptyDict
    /\ heap = EmptyDict
    /\ response = Idle

\* no handler is running
LoopIdle ==
    [pc |-> "idle", op |-> "", user_id |-> None, query |-> << >>, top_k |-> 0,
     texts |-> << >>, metadatas |-> << >>, user_docs |-> << >>, user_metas |-> << >>,
     pre_docs |-> << >>, pre_metas |-> << >>, pre_agree |-> TRUE, pre_worker |-> "idle",
     raised |-> "", ret |-> None]

WorkerIdle == [pc |-> "idle", user_id |-> None, raised |-> ""]

\* no storage file written yet
Absent == [format |-> "absent", items |-> << >>]

NoOutput == [run |-> "none"]

\* documents = [], metadatas = [] of simple_working_rag.py
InitWorking ==
    /\ working_documents = << >>
    /\ working_metadatas = << >>

\* the call has not returned
NotReturned == [done |-> FALSE]

\* no function is under evaluation
NoCall ==
    /\ call = [fn |-> "none"]
    /\ value = NotReturned

\* self.embeddings = None
NoArray == [is_none |-> TRUE, rows |-> << >>]

\* self.index = None
NoIndex == [is_none |-> TRUE, d |-> 0, vectors |-> << >>]

\* LocalRAG.__init__ of the named module
LocalRAG_init(module) ==
    [module |-> module, documents |-> << >>, metadatas |-> << >>,
     embeddings |-> NoArray, index |-> NoIndex]

\* no request of rag_impl waits for a collaborator
NotPending == [pc |-> "idle"]

\* the vector services at rest: a fresh LocalRAG, an empty Pinecone index
InitVectorsIdle ==
    /\ rag = LocalRAG_init("local_rag_service")
    /\ vectorstore = EmptyDict
    /\ pending = NotPending

Init ==
    /\ InitService
    /\ loop = LoopIdle
    /\ worker = WorkerIdle
    /\ storage_file = Absent
    /\ metadata_file = Absent
    /\ output = NoOutput
    /\ InitWorking
    /\ NoCall
    /\ InitVectorsIdle

\* POST /ingest
Ingest(file_path, source, user_id) ==
    LET req == Request("ingest", user_id, file_path, source, Str0, 0)
    IN  IF file_path = ""
        THEN /\ response = Idle
             /\ response' = Reply(req, 400, [detail |-> "file_path is required"])
             /\ UNCHANGED <<ragVars, taskVars, cliVars, workingVars, pureVars, localVars, remoteVars>>
        ELSE LET r == ingest_file(user_documents, user_metadatas, heap,
                                  file_path, source, user_id)
             IN  /\ response = Idle
                 /\ TotalChunks(r.docs) <= MaxDocs
                 /\ user_documents' = r.docs
                 /\ user_metadatas' = r.metas
                 /\ heap' = r.heap
                 /\ response' = Reply(req, 200, r.ret)
                 /\ UNCHANGED <<taskVars, cliVars, workingVars, pureVars, localVars, remoteVars>>

\* POST /query: rag.query(req.query, user_id=req.user_id, top_k=req.top_k),
\* for each top_k a request can carry (the ranking does not depend on it)
Query(query, user_id) ==
    LET user_docs == DictGet(user_documents, user_id)
        user_metas == DictGet(user_metadatas, user_id)
        similarities == Similarities(user_docs, query)
    IN  \E top_k \in TopKs :
          LET r == IF Len(user_docs) = 0
                   THEN [raised |-> "", result |-> EmptyResult]
                   ELSE BuildResults(user_docs, user_metas, heap,
                                     TopResults(similarities, top_k))
          IN  /\ response = Idle
              /\ response' = Reply(Request("query", user_id, "", None, query, top_k),
                                   IF r.raised = "" THEN 200 ELSE 500, r.result)
              /\ UNCHANGED <<ragVars, taskVars, cliVars, workingVars, pureVars, localVars, remoteVars>>

\* POST /clear-user
ClearUser(user_id) ==
    LET r == SimpleRAG_clear_user_documents(user_documents, user_metadatas, user_id)
    IN  /\ response = Idle
        /\ user_documents' = r.docs
        /\ user_metadatas' = r.metas
        /\ heap' = Collect(r.metas, heap)
        /\ response' = Reply(Request("clear_user", user_id, "", None, Str0, 0), 200,
                             [status |-> "success", user_id |-> user_id])
        /\ UNCHANGED <<taskVars, cliVars, workingVars, pureVars, localVars, remoteVars>>

\* POST /clear: rag = SimpleRAG()
ClearIndex ==
    /\ response = Idle
    /\ user_documents' = EmptyDict
    /\ user_metadatas' = EmptyDict
    /\ heap' = EmptyDict
    /\ response' = Reply(Request("clear", None, "", None, Str0, 0), 200,
                         [status |-> "success", documents_count |-> 0])
    /\ UNCHANGED <<taskVars, cliVars, workingVars, pureVars, localVars, remoteVars>>

\* GET /health
Health ==
    /\ response = Idle
    /\ response' = Reply(Request("health", None, "", None, Str0, 0), 200,
                         [status |-> "ok", documents_count |-> Cardinality(DOMAIN user_documents)])
    /\ UNCHANGED <<ragVars, taskVars, cliVars, workingVars, pureVars, localVars, remoteVars>>

\* GET /stats
Stats ==
    /\ response = Idle
    /\ response' = Reply(Request("stats", None, "", None, Str0, 0), 200,
                         [total_documents |-> Cardinality(DOMAIN user_documents)])
    /\ UNCHANGED <<ragVars, taskVars, cliVars, workingVars, pureVars, localVars, remoteVars>>

\* the reply is sent; the server takes the next request
Respond ==
    /\ response # Idle
    /\ response' = Idle
    /\ UNCHANGED <<ragVars, taskVars, cliVars, workingVars, pureVars, localVars, remoteVars>>

Next ==
    \/ \E f \in {x.path : x \in Files} \cup {""}, s \in Sources, u \in RequestUsers : Ingest(f, s, u)
    \/ \E q \in Queries, u \in RequestUsers \cup {DefaultUser} : Query(q, u)
    \/ \E u \in Tenants : ClearUser(u)
    \/ ClearIndex
    \/ Health
    \/ Stats
    \/ Respond

Spec == Init /\ [][Next]_vars

(***************************************************************************)
(* ragPipelineService.py: one run of main per action.  A storage file is   *)
(* [format, items]: the JSON value it holds is a list or an object of      *)
(* items, some other JSON value, not JSON at all, or the file is absent.   *)
(***************************************************************************)
conversational_keywords ==
    {<<"h", "e", "l", "l", "o">>,
     <<"h", "i">>,
     <<"h", "e", "y">>,
     <<"t", "h", "a", "n", "k", "s">>,
     <<"t", "h", "a", "n", "k", " ", "y", "o", "u">>,
     <<"g", "o", "o", "d", "b", "y", "e">>,
     <<"b", "y", "e">>,
     <<"h", "o", "w", " ", "a", "r", "e", " ", "y", "o", "u">>,
     <<"w", "h", "a", "t", "'", "s", " ", "u", "p">>,
     <<"n", "i", "c", "e", " ", "t", "o", " ", "m", "e", "e", "t", " ", "y", "o", "u">>,
     <<"g", "o", "o", "d", " ", "m", "o", "r", "n", "i", "n", "g">>,
     <<"g", "o", "o", "d", " ", "a", "f", "t", "e", "r", "n", "o", "o", "n">>,
     <<"g", "o", "o", "d", " ", "e", "v", "e", "n", "i", "n", "g">>,
     <<"g", "o", "o", "d", " ", "n", "i", "g", "h", "t">>}

translation_keywords ==
    {<<"t", "r", "a", "n", "s", "l", "a", "t", "e">>,
     <<"t", "r", "a", "n", "s", "l", "a", "t", "i", "o", "n">>,
     <<"s", "p", "a", "n", "i", "s", "h">>,
     <<"f", "r", "e", "n", "c", "h">>,
     <<"g", "e", "r", "m", "a", "n">>,
     <<"i", "t", "a", "l", "i", "a", "n">>,
     <<"p", "o", "r", "t", "u", "g", "u", "e", "s", "e">>}

\* the words after --query, joined by blanks
CliQueries ==
    {<<"H", "i">>,
     <<"h", "i", ",", " ", "p", "l", "e", "a", "s", "e", " ", "e", "x", "p", "l", "a", "i", "n", " ", "c", "h", "a", "p", "t", "e", "r", " ", "2">>,
     <<"t", "r", "a", "n", "s", "l", "a", "t", "e", " ", "d", "o", "c">>,
     <<"t", "r", "a", "n", "s", "l", "a", "t", "e", " ", "t", "h", "i", "s">>,
     <<"w", "h", "i", "t", "e", " ", "p", "a", "p", "e", "r">>,
     <<"h", "i", " ", "t", "r", "a", "n", "s", "l", "a", "t", "e">>,
     <<"a", "b", " ", "c">>}

EmptyCliResult == [ids |-> << >>, distances |-> << >>, metadatas |-> << >>, documents |-> << >>]

\* documents and document_metadata after load_documents
load_documents(sf, mf) ==
    IF sf.format = "corrupt" \/ mf.format = "corrupt"
    THEN [documents |-> << >>, document_metadata |-> << >>]
    ELSE [documents |-> IF sf.format = "list" THEN sf.items ELSE << >>,
          document_metadata |-> IF mf.format \in {"list", "dict"} THEN mf.items ELSE << >>]

\* the file a json.dump of a list leaves
save_documents(items) == [format |-> "list", items |-> items]

detect_content_type(f) ==
    LET ext == Lower(f.suffix)
    IN  IF ext = <<".", "t", "x", "t">> THEN "text"
        ELSE IF ext = <<".", "d", "o", "c", "x">> THEN "docx"
        ELSE IF ext = <<".", "p", "d", "f">> THEN "pdf"
        ELSE "unknown"

process_document(f) ==
    LET content_type == detect_content_type(f)
    IN  [content |-> IF content_type # "unknown" /\ f.readable THEN f.text ELSE TextEmpty,
         content_type |-> content_type]

\* query_documents whose greeting filter does not count the tokens
query_documents_any_length(query, documents, metadatas) ==
    IF documents = << >> THEN EmptyCliResult
    ELSE IF \E keyword \in conversational_keywords : Contains(Lower(query), keyword)
    THEN EmptyCliResult
    ELSE IF \E keyword \in translation_keywords : Contains(Lower(query), keyword)
    THEN [ids |-> List([i \in 1..Len(documents) |-> DocId(i - 1)]),
          distances |-> List([i \in 1..Len(documents) |-> <<0, 1>>]),
          metadatas |-> metadatas,
          documents |-> documents]
    ELSE [ids |-> <<DocId(0)>>,
          distances |-> <<(<<0, 1>>)>>,
          metadatas |-> IF metadatas # << >> THEN <<metadatas[1]>> ELSE << >>,
          documents |-> <<documents[1]>>]

\* query_documents that tests for a translation request before the greeting
query_documents_translation_first(query, documents, metadatas) ==
    LET query_lower == Lower(query)
        is_conversational ==
            /\ \E keyword \in conversational_keywords : Contains(query_lower, keyword)
            /\ SplitCount(query_lower) <= ConversationalMaxTokens
    IN  IF documents = << >> THEN EmptyCliResult
        ELSE IF \E keyword \in translation_keywords : Contains(query_lower, keyword)
        THEN [ids |-> List([i \in 1..Len(documents) |-> DocId(i - 1)]),
              distances |-> List([i \in 1..Len(documents) |-> <<0, 1>>]),
              metadatas |-> metadatas,
              documents |-> documents]
        ELSE IF is_conversational THEN EmptyCliResult
        ELSE [ids |-> <<DocId(0)>>,
              distances |-> <<(<<0, 1>>)>>,
              metadatas |-> IF metadatas # << >> THEN <<metadatas[1]>> ELSE << >>,
              documents |-> <<documents[1]>>]

query_documents(query, documents, metadatas) ==
    LET query_lower == Lower(query)
        is_conversational ==
            /\ \E keyword \in conversational_keywords : Contains(query_lower, keyword)
            /\ SplitCount(query_lower) <= ConversationalMaxTokens
    IN  IF documents = << >> THEN EmptyCliResult
        ELSE IF is_conversational THEN EmptyCliResult
        ELSE IF \E keyword \in translation_keywords : Contains(query_lower, keyword)
        THEN [ids |-> List([i \in 1..Len(documents) |-> DocId(i - 1)]),
              distances |-> List([i \in 1..Len(documents) |-> <<0, 1>>]),
              metadatas |-> metadatas,
              documents |-> documents]
        ELSE [ids |-> <<DocId(0)>>,
              distances |-> <<(<<0, 1>>)>>,
              metadatas |-> IF metadatas # << >> THEN <<metadatas[1]>> ELSE << >>,
              documents |-> <<documents[1]>>]

CliPaths == {f.path : f \in Files} \cup {"missing.txt", "--query"}

\* what may lie in the working directory before the first run
StoredDocs == {<< >>, <<TextShort>>}
StoredMeta ==
    {<< >>,
     <<[source |-> "short.txt", content_type |-> "text",
        uploaded_at |-> "2025-01-01T00:00:00.000000", word_count |-> 2]>>}
StorageFiles ==
    {Absent, [format |-> "other", items |-> << >>], [format |-> "corrupt", items |-> << >>]}
        \cup {[format |-> "list", items |-> d] : d \in StoredDocs}
MetadataFiles ==
    {Absent, [format |-> "other", items |-> << >>], [format |-> "corrupt", items |-> << >>]}
        \cup {[format |-> fmt, items |-> m] : fmt \in {"list", "dict"}, m \in StoredMeta}

InitCLI ==
    /\ InitService
    /\ loop = LoopIdle
    /\ worker = WorkerIdle
    /\ storage_file \in StorageFiles
    /\ metadata_file \in MetadataFiles
    /\ output = NoOutput
    /\ InitWorking
    /\ NoCall
    /\ InitVectorsIdle

\* python ragPipelineService.py
MainUsage ==
    /\ output' = [run |-> "usage"]
    /\ UNCHANGED <<ragVars, response, taskVars, storage_file, metadata_file,
                         workingVars, pureVars, localVars, remoteVars>>

\* python ragPipelineService.py --query <words>
MainQuery(query) ==
    LET loaded == load_documents(storage_file, metadata_file)
    IN  /\ output' = [run |-> "query", query |-> query,
                      result |-> query_documents(query, loaded.documents, loaded.document_metadata)]
        /\ UNCHANGED <<ragVars, response, taskVars, storage_file, metadata_file,
                         workingVars, pureVars, localVars, remoteVars>>

\* python ragPipelineService.py <file_path>
MainIngest(file_path) ==
    LET loaded == load_documents(storage_file, metadata_file)
    IN  IF file_path \notin {f.path : f \in Files}
        THEN /\ output' = [run |-> "ingest", file_path |-> file_path, message |-> "File not found"]
             /\ UNCHANGED <<ragVars, response, taskVars, storage_file, metadata_file,
                         workingVars, pureVars, localVars, remoteVars>>
        ELSE LET doc == process_document(FileAt(file_path))
             IN  IF doc.content.len = 0
                 THEN /\ output' = [run |-> "ingest", file_path |-> file_path,
                                    message |-> "Failed to extract content"]
                      /\ UNCHANGED <<ragVars, response, taskVars, storage_file, metadata_file,
                         workingVars, pureVars, localVars, remoteVars>>
                 ELSE /\ Len(loaded.documents) < MaxStored
                      /\ storage_file' = save_documents(Append(loaded.documents, doc.content))
                      /\ metadata_file' = save_documents(Append(loaded.document_metadata,
                             [source |-> file_path,
                              content_type |-> doc.content_type,
                              uploaded_at |-> "2025-01-01T00:00:00.000000",
                              word_count |-> SplitCount(Chars(doc.content))]))
                      /\ output' = [run |-> "ingest", file_path |-> file_path,
                                    message |-> "Successfully processed"]
                      /\ UNCHANGED <<ragVars, response, taskVars, workingVars, pureVars, localVars, remoteVars>>

NextCLI ==
    \/ MainUsage
    \/ \E query \in CliQueries : MainQuery(query)
    \/ \E file_path \in CliPaths : MainIngest(file_path)

SpecCLI == InitCLI /\ [][NextCLI]_vars

(***************************************************************************)
(* The service under concurrent requests.  /ingest and /query are          *)
(* coroutines without an await: the event loop runs one of them at a time. *)
(* /clear-user is a plain function: it runs on a pool thread, and the      *)
(* interpreter may switch between the loop and that thread before any      *)
(* statement.  One action per statement that touches the two dicts.        *)
(***************************************************************************)
ConcPaths == {"short.txt", "greet.TXT", "empty.txt"}
ConcQueries == {<<"a", "b">>}
ConcTopKs == {DefaultTopK}

\* the tenant's two lists are both absent, or both present and as long
ListsAgree(docs, metas, T) ==
    /\ T \in DOMAIN docs <=> T \in DOMAIN metas
    /\ T \in DOMAIN docs => Len(docs[T]) = Len(metas[T])

\* the frame of the handler on the event loop: arguments, locals, outcome.
\* The pre_ fields record the moment of the call: the tenant's two lists,
\* whether they agreed, and where the pool thread stood.
LoopTask(pc, op, user_id, query, top_k) ==
    [pc |-> pc, op |-> op, user_id |-> user_id, query |-> query, top_k |-> top_k,
     texts |-> << >>, metadatas |-> << >>, user_docs |-> << >>, user_metas |-> << >>,
     pre_docs |-> DictGet(user_documents, user_id),
     pre_metas |-> DictGet(user_metadatas, user_id),
     pre_agree |-> ListsAgree(user_documents, user_metadatas, user_id),
     pre_worker |-> worker.pc,
     raised |-> "", ret |-> None]

WorkerTask(pc, user_id) == [pc |-> pc, user_id |-> user_id, raised |-> ""]

\* the exception leaves the handler: the request fails
Raise(task, exc) == [task EXCEPT !.pc = "done", !.raised = exc]

\* Collect, with the lists a running handler still holds
CollectLive(metas, lp, hp) ==
    LET stored == UNION {{metas[u][i] : i \in 1..Len(metas[u])} : u \in DOMAIN metas}
        held == {lp.metadatas[i] : i \in 1..Len(lp.metadatas)}
                    \cup {lp.user_metas[i] : i \in 1..Len(lp.user_metas)}
    IN  Dict([r \in DOMAIN hp \cap (stored \cup held) |-> hp[r]])

InitConc ==
    /\ InitService
    /\ loop = LoopIdle
    /\ worker = WorkerIdle
    /\ storage_file = Absent
    /\ metadata_file = Absent
    /\ output = NoOutput
    /\ InitWorking
    /\ NoCall
    /\ InitVectorsIdle

\* POST /ingest up to line 51 of add_documents
LoopIngest(file_path, user_id) ==
    LET text == read_text_file(FileAt(file_path))
        chunks == Chunks(text)
        ref == NewRef(heap)
        tenant == PyOr(user_id, DefaultUser)
        task == LoopTask("add_52", "ingest", tenant, Str0, 0)
    IN  /\ loop.pc = "idle"
        /\ IF text.len = 0
           THEN /\ loop' = [LoopTask("done", "ingest", tenant, Str0, 0)
                               EXCEPT !.ret = [count |-> 0, ids |-> << >>,
                                               error |-> "No readable text"]]
                /\ UNCHANGED heap
           ELSE /\ TotalChunks(user_documents) + Len(chunks) <= MaxDocs
                /\ loop' = [task EXCEPT !.texts = chunks,
                                        !.metadatas = List([c \in 1..Len(chunks) |-> ref])]
                /\ heap' = DictSet(heap, ref, [text |-> text, source |-> file_path,
                                               user_id |-> tenant])
        /\ UNCHANGED <<user_documents, user_metadatas, response, worker, cliVars, workingVars, pureVars, localVars, remoteVars>>

\* line 52: if user_id not in self.user_documents
Add52 ==
    /\ loop.pc = "add_52"
    /\ loop' = [loop EXCEPT !.pc = IF loop.user_id \notin DOMAIN user_documents
                                   THEN "add_53" ELSE "add_57"]
    /\ UNCHANGED <<ragVars, response, worker, cliVars, workingVars, pureVars, localVars, remoteVars>>

\* line 53: self.user_documents[user_id] = []
Add53 ==
    /\ loop.pc = "add_53"
    /\ user_documents' = DictSet(user_documents, loop.user_id, << >>)
    /\ loop' = [loop EXCEPT !.pc = "add_54"]
    /\ UNCHANGED <<user_metadatas, heap, response, worker, cliVars, workingVars, pureVars, localVars, remoteVars>>

\* line 54: self.user_metadatas[user_id] = []
Add54 ==
    /\ loop.pc = "add_54"
    /\ user_metadatas' = DictSet(user_metadatas, loop.user_id, << >>)
    /\ loop' = [loop EXCEPT !.pc = "add_57"]
    /\ UNCHANGED <<user_documents, heap, response, worker, cliVars, workingVars, pureVars, localVars, remoteVars>>

\* line 57: start_idx = len(self.user_documents[user_id])
Add57 ==
    /\ loop.pc = "add_57"
    /\ loop' = IF loop.user_id \in DOMAIN user_documents
               THEN [loop EXCEPT !.pc = "add_58"] ELSE Raise(loop, "KeyError")
    /\ UNCHANGED <<ragVars, response, worker, cliVars, workingVars, pureVars, localVars, remoteVars>>

\* line 58: self.user_documents[user_id].extend(texts)
Add58 ==
    /\ loop.pc = "add_58"
    /\ IF loop.user_id \in DOMAIN user_documents
       THEN /\ user_documents' = DictSet(user_documents, loop.user_id,
                                         user_documents[loop.user_id] \o loop.texts)
            /\ loop' = [loop EXCEPT !.pc = "add_59"]
       ELSE /\ loop' = Raise(loop, "KeyError")
            /\ UNCHANGED user_documents
    /\ UNCHANGED <<user_metadatas, heap, response, worker, cliVars, workingVars, pureVars, localVars, remoteVars>>

\* line 59: self.user_metadatas[user_id].extend(metadatas)
Add59 ==
    /\ loop.pc = "add_59"
    /\ IF loop.user_id \in DOMAIN user_metadatas
       THEN /\ user_metadatas' = DictSet(user_metadatas, loop.user_id,
                                         user_metadatas[loop.user_id] \o loop.metadatas)
            /\ loop' = [loop EXCEPT !.pc = "add_61"]
       ELSE /\ loop' = Raise(loop, "KeyError")
            /\ UNCHANGED user_metadatas
    /\ UNCHANGED <<user_documents, heap, response, worker, cliVars, workingVars, pureVars, localVars, remoteVars>>

\* lines 61-62: len(self.user_documents[user_id]), return
Add61 ==
    /\ loop.pc = "add_61"
    /\ loop' = IF loop.user_id \in DOMAIN user_documents
               THEN [loop EXCEPT !.pc = "done",
                                 !.ret = [count |-> Len(loop.texts),
                                          total |-> Len(user_documents[loop.user_id])]]
               ELSE Raise(loop, "KeyError")
    /\ UNCHANGED <<ragVars, response, worker, cliVars, workingVars, pureVars, localVars, remoteVars>>

\* POST /query: rag.query is called
LoopQuery(query, user_id, top_k) ==
    /\ loop.pc = "idle"
    /\ loop' = LoopTask("query_95", "query", user_id, query, top_k)
    /\ UNCHANGED <<ragVars, response, worker, cliVars, workingVars, pureVars, localVars, remoteVars>>

\* line 95: user_docs = self.user_documents.get(user_id, [])
Query95 ==
    /\ loop.pc = "query_95"
    /\ loop' = [loop EXCEPT !.pc = "query_96",
                            !.user_docs = DictGet(user_documents, loop.user_id)]
    /\ UNCHANGED <<ragVars, response, worker, cliVars, workingVars, pureVars, localVars, remoteVars>>

\* line 96: user_metas = self.user_metadatas.get(user_id, [])
Query96 ==
    /\ loop.pc = "query_96"
    /\ loop' = [loop EXCEPT !.pc = "query_98",
                            !.user_metas = DictGet(user_metadatas, loop.user_id)]
    /\ UNCHANGED <<ragVars, response, worker, cliVars, workingVars, pureVars, localVars, remoteVars>>

\* lines 98-128, on the two locals only
Query98 ==
    LET r == IF Len(loop.user_docs) = 0
             THEN [raised |-> "", result |-> EmptyResult]
             ELSE BuildResults(loop.user_docs, loop.user_metas, heap,
                               TopResults(Similarities(loop.user_docs, loop.query), loop.top_k))
    IN  /\ loop.pc = "query_98"
        /\ loop' = [loop EXCEPT !.pc = "done", !.raised = r.raised, !.ret = r.result]
        /\ UNCHANGED <<ragVars, response, worker, cliVars, workingVars, pureVars, localVars, remoteVars>>

\* the handler returns (or its exception becomes a 500); its locals die
LoopReturn ==
    /\ loop.pc = "done"
    /\ loop' = LoopIdle
    /\ heap' = CollectLive(user_metadatas, LoopIdle, heap)
    /\ UNCHANGED <<user_documents, user_metadatas, response, worker, cliVars, workingVars, pureVars, localVars, remoteVars>>

\* POST /clear-user: rag.clear_user_documents is called on a pool thread
WorkerClear(user_id) ==
    /\ worker.pc = "idle"
    /\ worker' = WorkerTask("clear_132", user_id)
    /\ UNCHANGED <<ragVars, response, loop, cliVars, workingVars, pureVars, localVars, remoteVars>>

\* line 132: if user_id in self.user_documents
Clear132 ==
    /\ worker.pc = "clear_132"
    /\ worker' = [worker EXCEPT !.pc = IF worker.user_id \in DOMAIN user_documents
                                       THEN "clear_133" ELSE "clear_134"]
    /\ UNCHANGED <<ragVars, response, loop, cliVars, workingVars, pureVars, localVars, remoteVars>>

\* line 133: del self.user_documents[user_id]
Clear133 ==
    /\ worker.pc = "clear_133"
    /\ IF worker.user_id \in DOMAIN user_documents
       THEN /\ user_documents' = DictDel(user_documents, worker.user_id)
            /\ worker' = [worker EXCEPT !.pc = "clear_134"]
       ELSE /\ worker' = Raise(worker, "KeyError")
            /\ UNCHANGED user_documents
    /\ UNCHANGED <<user_metadatas, heap, response, loop, cliVars, workingVars, pureVars, localVars, remoteVars>>

\* line 134: if user_id in self.user_metadatas
Clear134 ==
    /\ worker.pc = "clear_134"
    /\ worker' = [worker EXCEPT !.pc = IF worker.user_id \in DOMAIN user_metadatas
                                       THEN "clear_135" ELSE "done"]
    /\ UNCHANGED <<ragVars, response, loop, cliVars, workingVars, pureVars, localVars, remoteVars>>

\* lines 135-136: del self.user_metadatas[user_id]
Clear135 ==
    /\ worker.pc = "clear_135"
    /\ IF worker.user_id \in DOMAIN user_metadatas
       THEN /\ user_metadatas' = DictDel(user_metadatas, worker.user_id)
            /\ heap' = CollectLive(DictDel(user_metadatas, worker.user_id), loop, heap)
            /\ worker' = [worker EXCEPT !.pc = "done"]
       ELSE /\ worker' = Raise(worker, "KeyError")
            /\ UNCHANGED <<user_metadatas, heap>>
    /\ UNCHANGED <<user_documents, response, loop, cliVars, workingVars, pureVars, localVars, remoteVars>>

\* the /clear-user handler returns
WorkerReturn ==
    /\ worker.pc = "done"
    /\ worker' = WorkerIdle
    /\ UNCHANGED <<ragVars, response, loop, cliVars, workingVars, pureVars, localVars, remoteVars>>

NextConc ==
    \/ \E file_path \in ConcPaths, user_id \in Users : LoopIngest(file_path, user_id)
    \/ Add52 \/ Add53 \/ Add54 \/ Add57 \/ Add58 \/ Add59 \/ Add61
    \/ \E query \in ConcQueries, user_id \in Users, top_k \in ConcTopKs :
           LoopQuery(query, user_id, top_k)
    \/ Query95 \/ Query96 \/ Query98
    \/ LoopReturn
    \/ \E user_id \in Users : WorkerClear(user_id)
    \/ Clear132 \/ Clear133 \/ Clear134 \/ Clear135
    \/ WorkerReturn

SpecConc == InitConc /\ [][NextConc]_vars

(***************************************************************************)
(* simple_working_rag.py: one list of documents and one of metadatas for   *)
(* the whole service; a request's user_id is only written into metadata.   *)
(***************************************************************************)
\* _read_text_file of simple_working_rag.py
working_read_text_file(f) ==
    LET file_ext == Lower(f.suffix)
    IN  IF file_ext \in {<<".", "t", "x", "t">>, <<".", "d", "o", "c", "x">>, <<".", "p", "d", "f">>}
        THEN (IF f.readable THEN f.text ELSE TextEmpty)
        ELSE TextEmpty

\* set(s.split())
SplitSet(s) ==
    LET starts == {i \in 1..Len(s) : ~IsSpace(s[i]) /\ (i = 1 \/ IsSpace(s[i - 1]))}
        stop(i) == CHOOSE j \in i..Len(s) :
                       /\ j = Len(s) \/ IsSpace(s[j + 1])
                       /\ \A k \in i..(j - 1) : ~IsSpace(s[k + 1])
    IN  {SubSeq(s, i, stop(i)) : i \in starts}

\* lines 140-145: the share of the query's words that the document holds
WordScore(query_words, doc) ==
    Rat(Cardinality(query_words \cap SplitSet(Lower(Chars(doc)))),
        IF Cardinality(query_words) > 1 THEN Cardinality(query_words) ELSE 1)

\* lines 137-151: (score, i) of the documents that score above 0, sorted
WorkingResults(docs, query) ==
    LET query_words == SplitSet(Lower(query))
        scored == List([i \in 1..Len(docs) |-> <<WordScore(query_words, docs[i]), i - 1>>])
    IN  SortReverse(SelectSeq(scored, LAMBDA r : r[1][1] > 0))

\* lines 125-164 of query
working_query(docs, metas, query, top_k) ==
    IF Len(docs) = 0 THEN EmptyResult
    ELSE LET top_results == SliceTo(WorkingResults(docs, query), top_k)
         IN  [ids |-> List([n \in 1..Len(top_results) |-> DocId(top_results[n][2])]),
              distances |-> List([n \in 1..Len(top_results) |-> top_results[n][1]]),
              metadatas |-> List([n \in 1..Len(top_results) |-> metas[top_results[n][2] + 1]]),
              documents |-> List([n \in 1..Len(top_results) |-> docs[top_results[n][2] + 1]])]

\* line 116: [f"doc_{i}" for i in range(start_idx, len(documents))]
IdsFrom(start_idx, count) == List([i \in 1..count |-> DocId(start_idx + i - 1)])

\* POST /ingest of simple_working_rag.py
WorkingIngest(file_path, source, user_id) ==
    LET req == Request("ingest", user_id, file_path, source, Str0, 0)
    IN  /\ response = Idle
        /\ IF file_path = ""
           THEN /\ response' = Reply(req, 400, [detail |-> "file_path is required"])
                /\ UNCHANGED workingVars
           ELSE LET text == working_read_text_file(FileAt(file_path))
                    chunks == Chunks(text)
                    meta == [source |-> PyOr(source, file_path),
                             user_id |-> PyOr(user_id, DefaultUser)]
                IN  IF text.len = 0
                    THEN /\ response' = Reply(req, 200, [count |-> 0, ids |-> << >>,
                                                         error |-> "No readable text"])
                         /\ UNCHANGED workingVars
                    ELSE /\ Len(working_documents) + Len(chunks) <= MaxDocs
                         /\ working_documents' = working_documents \o chunks
                         /\ working_metadatas' =
                                working_metadatas \o List([c \in 1..Len(chunks) |-> meta])
                         /\ response' = Reply(req, 200,
                                [count |-> Len(chunks),
                                 ids |-> IdsFrom(Len(working_documents), Len(chunks)),
                                 error |-> None])
        /\ UNCHANGED <<ragVars, taskVars, cliVars, pureVars, localVars, remoteVars>>

\* POST /query of simple_working_rag.py
WorkingQuery(query, user_id) ==
    \E top_k \in TopKs :
        /\ response = Idle
        /\ response' = Reply(Request("query", user_id, "", None, query, top_k), 200,
                             working_query(working_documents, working_metadatas, query, top_k))
        /\ UNCHANGED <<ragVars, taskVars, cliVars, workingVars, pureVars, localVars, remoteVars>>

\* POST /clear of simple_working_rag.py
WorkingClear ==
    /\ response = Idle
    /\ working_documents' = << >>
    /\ working_metadatas' = << >>
    /\ response' = Reply(Request("clear", None, "", None, Str0, 0), 200,
                         [status |-> "success", documents_count |-> 0])
    /\ UNCHANGED <<ragVars, taskVars, cliVars, pureVars, localVars, remoteVars>>

\* GET /health of simple_working_rag.py
WorkingHealth ==
    /\ response = Idle
    /\ response' = Reply(Request("health", None, "", None, Str0, 0), 200,
                         [status |-> "ok", documents_count |-> Len(working_documents)])
    /\ UNCHANGED <<ragVars, taskVars, cliVars, workingVars, pureVars, localVars, remoteVars>>

\* GET /stats of simple_working_rag.py
WorkingStats ==
    /\ response = Idle
    /\ response' = Reply(Request("stats", None, "", None, Str0, 0), 200,
                         [total_documents |-> Len(working_documents)])
    /\ UNCHANGED <<ragVars, taskVars, cliVars, workingVars, pureVars, localVars, remoteVars>>

NextWorking ==
    \/ \E file_path \in {f.path : f \in Files} \cup {""}, source \in Sources,
          user_id \in RequestUsers : WorkingIngest(file_path, source, user_id)
    \/ \E query \in Queries, user_id \in RequestUsers : WorkingQuery(query, user_id)
    \/ WorkingClear
    \/ WorkingHealth
    \/ WorkingStats
    \/ Respond

SpecWorking == Init /\ [][NextWorking]_vars

(***************************************************************************)
(* The chunking expression and simple_similarity on their own: a call with *)
(* its arguments, then its return value.                                   *)
(***************************************************************************)
\* the texts to chunk: every period below, cut at the lengths around each
\* multiple of 1000 up to MaxChunks windows
ChunkPeriods ==
    {<<"a", "b", " ">>, <<"H", "i", " ", "c", " ">>, <<"x">>,
     <<"a", "b", "c", "d", "e", "f", "\n">>}
ChunkLengths ==
    {n \in 1..(MaxChunks * ChunkSize) : n % ChunkSize \in {0, 1, 2, 500, 999}}

InitChunk ==
    /\ InitService
    /\ loop = LoopIdle
    /\ worker = WorkerIdle
    /\ storage_file = Absent
    /\ metadata_file = Absent
    /\ output = NoOutput
    /\ InitWorking
    /\ call \in {[fn |-> "chunks", text |-> Fill(pat, n)] :
                     pat \in ChunkPeriods, n \in ChunkLengths}
    /\ value = NotReturned
    /\ InitVectorsIdle

\* chunks = [text[i:i+1000] for i in range(0, len(text), 1000)]
ChunkText ==
    /\ call.fn = "chunks"
    /\ ~value.done
    /\ value' = [done |-> TRUE, ret |-> Chunks(call.text)]
    /\ UNCHANGED <<ragVars, response, taskVars, cliVars, workingVars, call, localVars, remoteVars>>

NextChunk == ChunkText

SpecChunk == InitChunk /\ [][NextChunk]_vars

\* queries and chunk texts for simple_similarity
SimQueries ==
    {<<"a", "b">>,
     <<"H", "i", " ", "c">>,
     <<"a", "b", " ", "c">>,
     <<",">>,
     <<"c", " ", "a", "b">>,
     <<"x", "?">>,
     Str0,
     Chars(Fill(<<"a", "b", " ">>, AutoJunkMin + 1))}
SimTexts ==
    {TextShort, TextGreet, TextEmpty,
     Text(<<",">>), Text(<<"a", "b", "c">>), Text(<<"b", "a", " ", "c">>), Text(<<"X", " ", "c">>),
     Fill(<<"a", "b", " ">>, AutoJunkMin + 1),
     Fill(<<"b", "a", " ">>, AutoJunkMin + 1),
     Fill(<<"a", "b", " ">>, ChunkSize)}

InitSimilarity ==
    /\ InitService
    /\ loop = LoopIdle
    /\ worker = WorkerIdle
    /\ storage_file = Absent
    /\ metadata_file = Absent
    /\ output = NoOutput
    /\ InitWorking
    /\ call \in {[fn |-> "simple_similarity", query |-> q, text |-> t] :
                     q \in SimQueries, t \in SimTexts}
    /\ value = NotReturned
    /\ InitVectorsIdle

\* score = self.simple_similarity(query, doc)
Score ==
    /\ call.fn = "simple_similarity"
    /\ ~value.done
    /\ value' = [done |-> TRUE, ret |-> simple_similarity(call.query, Chars(call.text))]
    /\ UNCHANGED <<ragVars, response, taskVars, cliVars, workingVars, call, localVars, remoteVars>>

NextSimilarity == Score

SpecSimilarity == InitSimilarity /\ [][NextSimilarity]_vars

(***************************************************************************)
(* LocalRAG, the vector store over sentence-transformers and FAISS, in its *)
(* two modules: src/src/py_rag/local_rag_service.py (with the /ingest and  *)
(* /query handlers) and src/local_rag.py.  self.model.encode is a          *)
(* collaborator: it raises, or it gives one row per text, all of one       *)
(* dimension.  A row holds, per letter of EmbedLetters, how often the text *)
(* has it.  embeddings and index are [is_none, ...] so that None has the   *)
(* shape of an array.                                                      *)
(***************************************************************************)
LocalModules == {"local_rag_service", "local_rag"}

EmbedLetters == <<"a", "c", "i">>

\* the dimensions an encoder may have
Dims == {2, 3}

\* what a call of self.model.encode may do
EncodeOutcomes ==
    {[raised |-> TRUE, d |-> 0]} \cup {[raised |-> FALSE, d |-> d] : d \in Dims}

\* the row encode gives for the string s
Embedding(s, d) ==
    List([j \in 1..d |-> Cardinality({i \in 1..Len(s) : s[i] = EmbedLetters[j]})])

\* self.model.encode(texts)
Encode(texts, d) == List([n \in 1..Len(texts) |-> Embedding(Chars(texts[n]), d)])

\* metadatas: List[Dict] = None
NotGiven == [none |-> TRUE, list |-> << >>]
Given(list) == [none |-> FALSE, list |-> list]

\* what a call gave: the store after it, the exception raised ("" if none)
\* and the value returned
Outcome(r, raised, ret) == [rag |-> r, raised |-> raised, ret |-> ret]

NoReturn == [none |-> TRUE]

\* metadatas = [{"text": text, "source": f"doc_{i}"} ...] / [{"text": text} ...]
DefaultMetadatas(module, texts) ==
    List([n \in 1..Len(texts) |->
            IF module = "local_rag_service"
            THEN [text |-> texts[n], source |-> DocId(n - 1)]
            ELSE [text |-> texts[n]]])

\* the else branch of add_documents: np.vstack, the two extends, index.add
AddToExisting(r, texts, metas, embeddings) ==
    IF Len(embeddings[1]) # Len(r.embeddings.rows[1])
    THEN Outcome(r, "ValueError", NoReturn)
    ELSE LET extended == [r EXCEPT !.embeddings.rows = @ \o embeddings,
                                   !.documents = @ \o texts,
                                   !.metadatas = @ \o metas]
         IN  IF r.index.is_none
             THEN Outcome(extended, "AttributeError", NoReturn)
             ELSE IF Len(embeddings[1]) # r.index.d
             THEN Outcome(extended, "AssertionError", NoReturn)
             ELSE Outcome([extended EXCEPT !.index.vectors = @ \o embeddings], "",
                          [count |-> Len(texts), total |-> Len(extended.documents)])

\* add_documents whose else branch extends the two lists before np.vstack
add_documents_lists_first(r, texts, metadatas, enc) ==
    LET metas == IF metadatas.none THEN DefaultMetadatas(r.module, texts) ELSE metadatas.list
    IN  IF r.module = "local_rag_service" /\ texts = << >>
        THEN Outcome(r, "", [count |-> 0, total |-> Len(r.documents)])
        ELSE IF enc.raised THEN Outcome(r, "EncodeError", NoReturn)
        ELSE IF r.embeddings.is_none
        THEN Outcome([r EXCEPT !.embeddings = [is_none |-> FALSE, rows |-> Encode(texts, enc.d)],
                               !.documents = texts,
                               !.metadatas = metas,
                               !.index = [is_none |-> FALSE, d |-> enc.d,
                                          vectors |-> Encode(texts, enc.d)]],
                     "", [count |-> Len(texts), total |-> Len(texts)])
        ELSE LET listed == [r EXCEPT !.documents = @ \o texts, !.metadatas = @ \o metas]
             IN  IF enc.d # Len(r.embeddings.rows[1])
                 THEN Outcome(listed, "ValueError", NoReturn)
                 ELSE AddToExisting(r, texts, metas, Encode(texts, enc.d))

\* add_documents that stores the texts before it encodes them
add_documents_store_first(r, texts, metadatas, enc) ==
    LET metas == IF metadatas.none THEN DefaultMetadatas(r.module, texts) ELSE metadatas.list
        stored == [r EXCEPT !.documents = @ \o texts, !.metadatas = @ \o metas]
    IN  IF r.module = "local_rag_service" /\ texts = << >>
        THEN Outcome(r, "", [count |-> 0, total |-> Len(r.documents)])
        ELSE IF enc.raised THEN Outcome(stored, "EncodeError", NoReturn)
        ELSE IF r.embeddings.is_none
        THEN Outcome([r EXCEPT !.embeddings = [is_none |-> FALSE, rows |-> Encode(texts, enc.d)],
                               !.documents = texts,
                               !.metadatas = metas,
                               !.index = [is_none |-> FALSE, d |-> enc.d,
                                          vectors |-> Encode(texts, enc.d)]],
                     "", [count |-> Len(texts), total |-> Len(texts)])
        ELSE AddToExisting(r, texts, metas, Encode(texts, enc.d))

\* add_documents that leaves the new rows out of the index
add_documents_index_skipped(r, texts, metadatas, enc) ==
    LET metas == IF metadatas.none THEN DefaultMetadatas(r.module, texts) ELSE metadatas.list
    IN  IF r.module = "local_rag_service" /\ texts = << >>
        THEN Outcome(r, "", [count |-> 0, total |-> Len(r.documents)])
        ELSE IF enc.raised THEN Outcome(r, "EncodeError", NoReturn)
        ELSE IF r.embeddings.is_none
        THEN Outcome([r EXCEPT !.embeddings = [is_none |-> FALSE, rows |-> Encode(texts, enc.d)],
                               !.documents = texts,
                               !.metadatas = metas,
                               !.index = [is_none |-> FALSE, d |-> enc.d,
                                          vectors |-> Encode(texts, enc.d)]],
                     "", [count |-> Len(texts), total |-> Len(texts)])
        ELSE IF enc.d # Len(r.embeddings.rows[1])
        THEN Outcome(r, "ValueError", NoReturn)
        ELSE Outcome([r EXCEPT !.embeddings.rows = @ \o Encode(texts, enc.d),
                               !.documents = @ \o texts,
                               !.metadatas = @ \o metas],
                     "", [count |-> Len(texts), total |-> Len(r.documents) + Len(texts)])

\* LocalRAG.add_documents(texts, metadatas), enc being what encode does
LocalRAG_add_documents(r, texts, metadatas, enc) ==
    LET metas == IF metadatas.none THEN DefaultMetadatas(r.module, texts) ELSE metadatas.list
    IN  IF r.module = "local_rag_service" /\ texts = << >>
        THEN Outcome(r, "", [count |-> 0, total |-> Len(r.documents)])
        ELSE IF enc.raised THEN Outcome(r, "EncodeError", NoReturn)
        ELSE IF r.embeddings.is_none
        THEN Outcome([r EXCEPT !.embeddings = [is_none |-> FALSE, rows |-> Encode(texts, enc.d)],
                               !.documents = texts,
                               !.metadatas = metas,
                               !.index = [is_none |-> FALSE, d |-> enc.d,
                                          vectors |-> Encode(texts, enc.d)]],
                     "", [count |-> Len(texts), total |-> Len(texts)])
        ELSE AddToExisting(r, texts, metas, Encode(texts, enc.d))

\* the label FAISS gives a result slot it cannot fill, and its distance
PadLabel == -1
PadDistance == -1

RECURSIVE DotUpTo(_, _, _)
DotUpTo(u, v, j) == IF j = 0 THEN 0 ELSE u[j] * v[j] + DotUpTo(u, v, j - 1)

\* the inner product IndexFlatIP ranks by
InnerProduct(u, v) == DotUpTo(u, v, Len(u))

\* index.search(x, k): the labels (positions from 0) of the k vectors of
\* greatest inner product, best first, vectors of equal product in any
\* order; the slots past the last vector hold PadLabel
Search(vectors, x, k) ==
    LET n == Len(vectors)
        m == IF k < n THEN k ELSE n
        ip(label) == InnerProduct(vectors[label + 1], x)
        ranked == {f \in [1..m -> 0..(n - 1)] :
                      /\ \A a, b \in 1..m : a < b => f[a] # f[b] /\ ip(f[a]) >= ip(f[b])
                      /\ \A label \in 0..(n - 1) :
                            (\A a \in 1..m : f[a] # label) => \A a \in 1..m : ip(f[a]) >= ip(label)}
    IN  {List(f) \o List([a \in 1..(k - m) |-> PadLabel]) : f \in ranked}

\* lst[i] of Python: a negative i counts from the end
PyItem(lst, i) == IF i < 0 THEN lst[Len(lst) + i + 1] ELSE lst[i + 1]

InRange(lst, i) == 0 - Len(lst) <= i /\ i < Len(lst)

\* the result dict built from indices[0]; ids only in local_rag_service.py
LocalResults(r, x, indices) ==
    LET distances == List([a \in 1..Len(indices) |->
                             IF indices[a] = PadLabel THEN PadDistance
                             ELSE InnerProduct(r.index.vectors[indices[a] + 1], x)])
        metadatas == List([a \in 1..Len(indices) |-> PyItem(r.metadatas, indices[a])])
        documents == List([a \in 1..Len(indices) |-> PyItem(r.documents, indices[a])])
    IN  IF r.module = "local_rag_service"
        THEN [ids |-> List([a \in 1..Len(indices) |-> DocId(indices[a])]),
              distances |-> distances, metadatas |-> metadatas, documents |-> documents]
        ELSE [documents |-> documents, distances |-> distances, metadatas |-> metadatas]

\* LocalRAG.query(query, top_k): every outcome it may have, enc being what
\* encode does; a returned value carries the labels FAISS gave
LocalRAG_query(r, query, top_k, enc) ==
    LET k == IF r.module = "local_rag_service" /\ Len(r.documents) < top_k
             THEN Len(r.documents) ELSE top_k
        empty == IF r.module = "local_rag_service"
                 THEN [ids |-> << >>, distances |-> << >>, metadatas |-> << >>, documents |-> << >>]
                 ELSE [documents |-> << >>, distances |-> << >>, metadatas |-> << >>]
    IN  IF r.index.is_none \/ (r.module = "local_rag_service" /\ Len(r.documents) = 0)
        THEN {[raised |-> "", ret |-> empty, indices |-> << >>]}
        ELSE IF enc.raised
        THEN {[raised |-> "EncodeError", ret |-> NoReturn, indices |-> << >>]}
        ELSE IF enc.d # r.index.d \/ k <= 0
        THEN {[raised |-> "AssertionError", ret |-> NoReturn, indices |-> << >>]}
        ELSE {IF \A a \in 1..Len(indices) :
                     InRange(r.metadatas, indices[a]) /\ InRange(r.documents, indices[a])
              THEN [raised |-> "", ret |-> LocalResults(r, Embedding(query, enc.d), indices),
                    indices |-> indices]
              ELSE [raised |-> "IndexError", ret |-> NoReturn, indices |-> indices] :
                 indices \in Search(r.index.vectors, Embedding(query, enc.d), k)}

\* the files of the working directory of local_rag_service.py
LocalFiles ==
    Files \cup {[path |-> "pages.txt", suffix |-> <<".", "t", "x", "t">>,
                 readable |-> TRUE, text |-> TextLong]}

LocalFileAt(path) == CHOOSE f \in LocalFiles : f.path = path

\* pathlib.Path(path).read_text(encoding="utf-8"): any suffix is read as
\* text; the bytes of a .docx or .pdf file do not decode and give ""
local_read_text_file(f) ==
    IF f.readable /\ Lower(f.suffix) \notin {<<".", "d", "o", "c", "x">>, <<".", "p", "d", "f">>}
    THEN f.text ELSE TextEmpty

\* the texts a direct call of add_documents brings
LocalTexts == {<<TextShort>>, <<TextGreet, TextShort>>}

InitLocal ==
    /\ InitService
    /\ loop = LoopIdle
    /\ worker = WorkerIdle
    /\ storage_file = Absent
    /\ metadata_file = Absent
    /\ output = NoOutput
    /\ InitWorking
    /\ NoCall
    /\ rag \in {LocalRAG_init(module) : module \in LocalModules}
    /\ vectorstore = EmptyDict
    /\ pending = NotPending

\* the reply to a call: status 200 for a return, 500 for an exception; the
\* body carries what encode did and the labels of the search
LocalReply(req, raised, ret, enc, indices) ==
    Reply(req, IF raised = "" THEN 200 ELSE 500,
          [raised |-> raised, ret |-> ret, enc |-> enc, indices |-> indices])

\* rag.add_documents(texts) and rag.add_documents(texts, metadatas)
LocalAdd(texts, enc) ==
    \E metadatas \in {NotGiven, Given(DefaultMetadatas("local_rag", texts))} :
        LET r == LocalRAG_add_documents(rag, texts, metadatas, enc)
        IN  /\ response = Idle
            /\ Len(rag.documents) + Len(texts) <= MaxDocs
            /\ rag' = r.rag
            /\ response' = LocalReply(Request("add_documents", None, "", None, Str0, 0),
                                      r.raised, r.ret, enc, << >>)
            /\ UNCHANGED <<ragVars, taskVars, cliVars, workingVars, pureVars, remoteVars>>

\* POST /ingest of local_rag_service.py, file_path mode
LocalIngest(file_path, source, enc) ==
    LET req == Request("ingest", None, file_path, source, Str0, 0)
        text == local_read_text_file(LocalFileAt(file_path))
        chunks == Chunks(text)
        meta == [text |-> text, source |-> PyOr(source, file_path)]
        r == LocalRAG_add_documents(rag, chunks, Given(List([n \in 1..Len(chunks) |-> meta])), enc)
    IN  /\ response = Idle
        /\ rag.module = "local_rag_service"
        /\ IF file_path = ""
           THEN /\ response' = Reply(req, 400, [detail |-> "Provide either file upload or file_path"])
                /\ UNCHANGED rag
           ELSE IF text.len = 0
           THEN /\ response' = LocalReply(req, "", [count |-> 0, ids |-> << >>,
                                                    error |-> "No readable text"], enc, << >>)
                /\ UNCHANGED rag
           ELSE /\ Len(rag.documents) + Len(chunks) <= MaxDocs
                /\ rag' = r.rag
                /\ response' = LocalReply(req, r.raised, r.ret, enc, << >>)
        /\ UNCHANGED <<ragVars, taskVars, cliVars, workingVars, pureVars, remoteVars>>

\* POST /query of local_rag_service.py; rag.query(query, top_k) of local_rag.py
LocalQuery(query, top_k, enc) ==
    \E r \in LocalRAG_query(rag, query, top_k, enc) :
        /\ response = Idle
        /\ response' = LocalReply(Request("query", None, "", None, query, top_k),
                                  r.raised, r.ret, enc, r.indices)
        /\ UNCHANGED <<ragVars, taskVars, cliVars, workingVars, pureVars, localVars, remoteVars>>

\* the reply is sent, the caller goes on
LocalRespond ==
    /\ response # Idle
    /\ response' = Idle
    /\ UNCHANGED <<ragVars, taskVars, cliVars, workingVars, pureVars, localVars, remoteVars>>

NextLocal ==
    \/ \E texts \in LocalTexts \cup {<< >>}, enc \in EncodeOutcomes :
          (texts # << >> \/ rag.module = "local_rag_service") /\ LocalAdd(texts, enc)
    \/ \E f \in {x.path : x \in LocalFiles} \cup {""}, s \in Sources, enc \in EncodeOutcomes :
          LocalIngest(f, s, enc)
    \/ \E q \in Queries, top_k \in TopKs, enc \in EncodeOutcomes : LocalQuery(q, top_k, enc)
    \/ LocalRespond

SpecLocal == InitLocal /\ [][NextLocal]_vars

(***************************************************************************)
(* rag_impl.py behind app.py: the texts go to a Pinecone index through     *)
(* _vectorstore, which embeds them with OpenAI.  Both are collaborators: a *)
(* call of _vectorstore returns, raises, or never returns.  The handlers   *)
(* are coroutines that call it without await, so the server answers no     *)
(* other request while one waits.                                          *)
(***************************************************************************)
\* what becomes of a call of _vectorstore
Fates == {"returns", "raises", "hangs"}

\* the dimension of the embeddings the index was made for is fixed
RemoteDim == Cardinality(DOMAIN EmbedLetters)

\* _read_text_file of rag_impl.py
remote_read_text_file(f) ==
    IF f.readable /\ Lower(f.suffix) \notin {<<".", "d", "o", "c", "x">>, <<".", "p", "d", "f">>}
    THEN f.text ELSE TextEmpty

\* ids = [f"doc_{i}" for i in range(len(texts))]
SimpleIds(texts) == List([n \in 1..Len(texts) |-> DocId(n - 1)])

\* the index after the upsert of add_texts
Upsert(store, texts, metadatas, ids) ==
    Dict([id \in DOMAIN store \cup {ids[n] : n \in 1..Len(ids)} |->
            IF \E n \in 1..Len(ids) : ids[n] = id
            THEN LET n == CHOOSE m \in 1..Len(ids) : ids[m] = id /\ \A l \in (m + 1)..Len(ids) : ids[l] # id
                 IN  [page_content |-> texts[n], metadata |-> metadatas[n]]
            ELSE store[id]])

\* the row the embedding model gives for a stored text: Embedding of its
\* characters, counted in place
TextEmbedding(t, d) ==
    List([j \in 1..d |->
            Cardinality({i \in 1..t.len :
                            t.pat[((t.off + i - 1) % Len(t.pat)) + 1] = EmbedLetters[j]})])

\* the score Pinecone gives a stored text for the query
RemoteScore(store, id, query) ==
    InnerProduct(TextEmbedding(store[id].page_content, RemoteDim), Embedding(query, RemoteDim))

\* similarity_search_with_score(query, k): the k best stored documents with
\* their scores, best first, equal scores in any order
SimilaritySearch(store, query, k) ==
    LET n == Cardinality(DOMAIN store)
        m == IF k < n THEN k ELSE n
    IN  {List([a \in 1..m |-> [doc |-> store[f[a]], score |-> RemoteScore(store, f[a], query)]]) :
            f \in {g \in [1..m -> DOMAIN store] :
                      /\ \A a, b \in 1..m : a < b =>
                            g[a] # g[b] /\ RemoteScore(store, g[a], query) >= RemoteScore(store, g[b], query)
                      /\ \A id \in DOMAIN store :
                            (\A a \in 1..m : g[a] # id) =>
                                \A a \in 1..m : RemoteScore(store, g[a], query) >= RemoteScore(store, id, query)}}

\* the dict query_text builds from the results; metadata carries no "id"
QueryTextResult(results) ==
    [ids |-> List([a \in 1..Len(results) |-> DocId(a - 1)]),
     distances |-> List([a \in 1..Len(results) |-> results[a].score]),
     metadatas |-> List([a \in 1..Len(results) |-> results[a].doc.metadata]),
     documents |-> List([a \in 1..Len(results) |-> results[a].doc.page_content])]

InitRemote ==
    /\ InitService
    /\ loop = LoopIdle
    /\ worker = WorkerIdle
    /\ storage_file = Absent
    /\ metadata_file = Absent
    /\ output = NoOutput
    /\ InitWorking
    /\ NoCall
    /\ InitVectorsIdle

\* POST /ingest of app.py, file_path mode, up to the call of add_texts
RemoteIngest(file_path, source) ==
    LET req == Request("ingest", None, file_path, source, Str0, 0)
        text == remote_read_text_file(LocalFileAt(file_path))
        meta == [text |-> text, source |-> PyOr(source, file_path)]
    IN  /\ response = Idle
        /\ pending = NotPending
        /\ IF file_path = ""
           THEN /\ response' = Reply(req, 400, [detail |-> "Provide either file upload or file_path"])
                /\ UNCHANGED pending
           ELSE IF text.len = 0
           THEN /\ response' = Reply(req, 200, [count |-> 0, ids |-> << >>,
                                                error |-> "No readable text"])
                /\ UNCHANGED pending
           ELSE /\ \E fate \in Fates :
                      pending' = [pc |-> "waiting", call |-> "add_texts", req |-> req,
                                  texts |-> <<text>>, metadatas |-> <<meta>>,
                                  ids |-> SimpleIds(<<text>>), fate |-> fate]
                /\ UNCHANGED response
        /\ UNCHANGED <<ragVars, taskVars, cliVars, workingVars, pureVars, localVars, vectorstore>>

\* add_texts returns: ingest_texts returns {"count", "ids"}
AddTextsReturns ==
    /\ pending.pc = "waiting"
    /\ pending.call = "add_texts"
    /\ pending.fate = "returns"
    /\ vectorstore' = Upsert(vectorstore, pending.texts, pending.metadatas, pending.ids)
    /\ response' = Reply(pending.req, 200, [count |-> Len(pending.texts), ids |-> pending.ids])
    /\ pending' = NotPending
    /\ UNCHANGED <<ragVars, taskVars, cliVars, workingVars, pureVars, localVars>>

\* POST /query of app.py, up to the call of similarity_search_with_score;
\* Pinecone refuses a top_k below 1
RemoteQuery(query, top_k) ==
    /\ response = Idle
    /\ pending = NotPending
    /\ \E fate \in Fates :
          /\ top_k < 1 => fate # "returns"
          /\ pending' = [pc |-> "waiting", call |-> "similarity_search_with_score",
                         req |-> Request("query", None, "", None, query, top_k), fate |-> fate]
    /\ UNCHANGED <<ragVars, response, taskVars, cliVars, workingVars, pureVars,
                   localVars, vectorstore>>

\* similarity_search_with_score returns: query_text builds its dict
SearchReturns ==
    /\ pending.pc = "waiting"
    /\ pending.call = "similarity_search_with_score"
    /\ pending.fate = "returns"
    /\ \E results \in SimilaritySearch(vectorstore, pending.req.query, pending.req.top_k) :
          response' = Reply(pending.req, 200, QueryTextResult(results))
    /\ pending' = NotPending
    /\ UNCHANGED <<ragVars, taskVars, cliVars, workingVars, pureVars, localVars, vectorstore>>

\* the call of _vectorstore raises: nothing catches the exception, the
\* request ends with it
CollaboratorRaises ==
    /\ pending.pc = "waiting"
    /\ pending.fate = "raises"
    /\ response' = Reply(pending.req, 500, [raised |-> pending.call])
    /\ pending' = NotPending
    /\ UNCHANGED <<ragVars, taskVars, cliVars, workingVars, pureVars, localVars, vectorstore>>

\* the reply is sent; the server takes the next request
RemoteRespond ==
    /\ response # Idle
    /\ response' = Idle
    /\ UNCHANGED <<ragVars, taskVars, cliVars, workingVars, pureVars, localVars, remoteVars>>

NextRemote ==
    \/ \E f \in {x.path : x \in LocalFiles} \cup {""}, s \in Sources \cup {"upload"} : RemoteIngest(f, s)
    \/ AddTextsReturns
    \/ \E q \in Queries, top_k \in TopKs : RemoteQuery(q, top_k)
    \/ SearchReturns
    \/ CollaboratorRaises
    \/ RemoteRespond

SpecRemote == InitRemote /\ [][NextRemote]_vars

\* the server goes on whenever it can: a collaborator call that returns or
\* raises is taken up, a reply is sent
SpecRemoteLive ==
    /\ InitRemote
    /\ [][NextRemote]_vars
    /\ WF_vars(AddTextsReturns)
    /\ WF_vars(SearchReturns)
    /\ WF_vars(CollaboratorRaises)
    /\ WF_vars(RemoteRespond)

(***************************************************************************)
(* Properties of the service.                                              *)
(***************************************************************************)
CeilDiv(n, d) == (n + d - 1) \div d

Min(x, y) == IF x < y THEN x ELSE y

Max(x, y) == IF x > y THEN x ELSE y

\* the file holds text that can be read: a supported type, readable, not empty
HasReadableText(f) ==
    /\ f.readable
    /\ f.text.len > 0
    /\ Lower(f.suffix) \in {<<".", "t", "x", "t">>, <<".", "d", "o", "c", "x">>,
                            <<".", "p", "d", "f">>}

\* the tenant a request is for
TenantOf(req) == IF req.op = "ingest" THEN PyOr(req.user_id, DefaultUser) ELSE req.user_id

\* the step answers an ingest of readable text
IngestsText == response'.req.op = "ingest" /\ response'.req.path # ""
                   /\ HasReadableText(FileAt(response'.req.path))

\* C1: for every tenant T and non-empty readable text t, after ingest_file
\* ingests t for T, the chunk count of T is its count before the call plus
\* ceil(len(t) / 1000).
C1_IngestAddsCeilChunks ==
    [][IngestsText =>
         get_user_document_count(user_documents', TenantOf(response'.req))
           = get_user_document_count(user_documents, TenantOf(response'.req))
               + CeilDiv(FileAt(response'.req.path).text.len, 1000)]_vars

\* an ingest of the 1001-character file into a tenant that held a chunk
C1_Witness ==
    /\ response.req.op = "ingest"
    /\ response.req.path = "long.pdf"
    /\ response.body.count = 2
    /\ response.body.total = 3

\* the tenant holds nothing and every query on it returns four empty arrays
ClearedIn(docs, metas, hp, T) ==
    /\ get_user_document_count(docs, T) = 0
    /\ \A q \in Queries, k \in TopKs :
         SimpleRAG_query(docs, metas, hp, q, T, k) = [raised |-> "", result |-> EmptyResult]

\* C2: after clear_user_documents(T), whether or not T held chunks, the call
\* raises nothing, count(T) is 0 and every query on T returns four empty
\* arrays, until the next ingest into T.
C2_ClearEmptiesTenant ==
    [][/\ response'.req.op = "clear_user" =>
            /\ response'.status = 200
            /\ ClearedIn(user_documents', user_metadatas', heap', response'.req.user_id)
       /\ \A T \in Tenants :
            (/\ ClearedIn(user_documents, user_metadatas, heap, T)
             /\ ~(IngestsText /\ TenantOf(response'.req) = T))
            => ClearedIn(user_documents', user_metadatas', heap', T)]_vars

\* a clear of a tenant has been answered; the first dict created is gone
\* while a later one is still held by another tenant
C2_Witness ==
    /\ response.req.op = "clear_user"
    /\ response.req.user_id \notin DOMAIN user_documents
    /\ 1 \notin DOMAIN heap
    /\ 2 \in DOMAIN heap

\* the answer to a query, and what it was computed from
IsQueryReply == response.req.op = "query" /\ response.status = 200

ReplyDocs == DictGet(user_documents, response.req.user_id)

\* the positions (from 0) of the chunks a reply lists
Returned(result) == {result.ids[n][2] : n \in 1..Len(result.ids)}

ScoreOf(j) == simple_similarity(response.req.query, Chars(ReplyDocs[j + 1]))

\* C3: for top_k >= 0 a query returns at most min(top_k, count(T)) results,
\* in non-increasing order of score, each score >= that of every chunk of T
\* that was not returned.
C3_TopKSorted ==
    (IsQueryReply /\ response.req.top_k >= 0) =>
        LET r == response.body
        IN  /\ Len(r.ids) <= Min(response.req.top_k, Len(ReplyDocs))
            /\ \A n \in 1..(Len(r.distances) - 1) : RatLeq(r.distances[n + 1], r.distances[n])
            /\ \A j \in 0..(Len(ReplyDocs) - 1) :
                 j \notin Returned(r) =>
                   \A n \in 1..Len(r.distances) : RatLeq(ScoreOf(j), r.distances[n])

\* top_k = 1 on a tenant of three chunks, one left out scoring strictly less
C3_Witness ==
    /\ IsQueryReply
    /\ response.req.top_k = 1
    /\ Len(response.body.ids) = 1
    /\ Len(ReplyDocs) = 3
    /\ \E j \in 0..2 : j \notin Returned(response.body)
                        /\ RatLess(ScoreOf(j), response.body.distances[1])

C5_TopKClamped ==
    (IsQueryReply /\ Len(ReplyDocs) > 0) =>
        Len(response.body.ids) = Min(Max(response.req.top_k, 0), Len(ReplyDocs))

\* C6 as stated: a /query request without user_id is answered from the
\* store of tenant "default", the one an /ingest without user_id fills.
C6_QueryDefaultsToDefault ==
    (IsQueryReply /\ response.req.user_id = None) =>
        response.body = SimpleRAG_query(user_documents, user_metadatas, heap,
                                        response.req.query, DefaultUser,
                                        response.req.top_k).result

\* C7: whatever the two storage files hold when main loads them and whatever
\* was ingested since, a query run prints a result whose four arrays ids,
\* distances, metadatas and documents have the same length.
C7_ResultArraysEqualLength ==
    output.run = "query" =>
        /\ Len(output.result.ids) = Len(output.result.documents)
        /\ Len(output.result.distances) = Len(output.result.documents)
        /\ Len(output.result.metadatas) = Len(output.result.documents)

\* the pool thread had not yet run a statement of clear_user_documents when
\* the handler on the event loop was called, and the tenant's lists agreed
CalledOnQuietStore ==
    /\ loop.pre_agree
    /\ loop.pre_worker \in {"idle", "clear_132", "done"}

\* C8: a query called on a tenant whose two lists agree, with
\* clear_user_documents running only while the query runs, ends without an
\* exception, having read either no documents or the documents and the
\* metadata as they were at the call.
C8_ClearAtomicForQuery ==
    (/\ loop.pc = "done"
     /\ loop.op = "query"
     /\ CalledOnQuietStore) =>
        /\ loop.raised = ""
        /\ \/ loop.user_docs = loop.pre_docs /\ loop.user_metas = loop.pre_metas
           \/ loop.user_docs = << >>

\* C9: when add_documents, called on a tenant whose two lists agree, and a
\* clear_user_documents for the same tenant that ran only while it ran have
\* both finished, neither has raised and the tenant's two lists agree.
C9_WritersExclusive ==
    (/\ loop.pc = "done"
     /\ loop.op = "ingest"
     /\ CalledOnQuietStore
     /\ worker.pc = "done"
     /\ worker.user_id = loop.user_id) =>
        /\ loop.raised = ""
        /\ worker.raised = ""
        /\ ListsAgree(user_documents, user_metadatas, loop.user_id)

\* what a tenant holds: its chunk texts and the contents of their metadata
Holding(docs, metas, hp, B) ==
    [documents |-> DictGet(docs, B),
     metadatas |-> [i \in 1..Len(DictGet(metas, B)) |-> hp[DictGet(metas, B)[i]]]]

\* C10: add_documents, query and clear_user_documents performed for tenant A
\* leave every other tenant B's chunk texts, chunk metadata (user_id
\* included) and chunk count unchanged, and so the result of any query on B
\* (a query changes no tenant at all).
C10_OtherTenantsUntouched ==
    [][/\ response'.req.op = "query" =>
            <<user_documents', user_metadatas', heap'>> = <<user_documents, user_metadatas, heap>>
       /\ \A B \in Tenants \cup {None} :
            (response'.req.op \in {"ingest", "clear_user"} /\ TenantOf(response'.req) # B)
            => /\ Holding(user_documents', user_metadatas', heap', B)
                    = Holding(user_documents, user_metadatas, heap, B)
               /\ get_user_document_count(user_documents', B)
                    = get_user_document_count(user_documents, B)
               /\ \A q \in Queries, k \in TopKs :
                    SimpleRAG_query(user_documents', user_metadatas', heap', q, B, k)
                      = SimpleRAG_query(user_documents, user_metadatas, heap, q, B, k)]_vars

\* an ingest for u1 has been answered while tenant "default" holds chunks
C10_Witness ==
    /\ response.req.op = "ingest"
    /\ response.req.user_id = "u1"
    /\ response.req.path = "greet.TXT"
    /\ response.body.count = 1
    /\ get_user_document_count(user_documents, DefaultUser) = 2

(***************************************************************************)
(* Properties of simple_working_rag.py.                                    *)
(***************************************************************************)
\* the step has answered a query of the single-index service
IsWorkingQueryReply == response # Idle /\ response.req.op = "query" /\ response.status = 200

\* C11: a query that carries user_id A returns no chunk that was ingested
\* with another user_id: every returned metadata names the query's tenant.
C11_NoCrossTenantResults ==
    IsWorkingQueryReply =>
        \A n \in 1..Len(response.body.metadatas) :
            response.body.metadatas[n].user_id = PyOr(response.req.user_id, DefaultUser)

\* the number of stored chunks that were ingested for tenant T
WorkingCount(T) ==
    Cardinality({i \in 1..Len(working_metadatas) : working_metadatas[i].user_id = T})

\* C12: the ids an ingest returns continue the tenant's own numbering: with
\* n chunks added to a tenant that then holds m, the ids are doc_(m-n) ..
\* doc_(m-1), so they start at 0 for an empty tenant and never repeat.
C12_IdsContiguousPerTenant ==
    (/\ response # Idle
     /\ response.req.op = "ingest"
     /\ response.status = 200
     /\ response.body.count > 0) =>
        LET T == PyOr(response.req.user_id, DefaultUser)
        IN  response.body.ids = IdsFrom(WorkingCount(T) - response.body.count,
                                        response.body.count)

(***************************************************************************)
(* Properties of simple_rag_service.py: requests that find nothing.        *)
(***************************************************************************)
\* the step answers an ingest of a file that is empty, unreadable or of an
\* unsupported type
IngestsNoText == response'.req.op = "ingest" /\ response'.req.path # ""
                     /\ ~HasReadableText(FileAt(response'.req.path))

\* C13: an ingest of a file whose text is empty, unreadable or of an
\* unsupported type is answered {count: 0, ids: [], error: ...} with status
\* 200, and leaves both dicts as they were: no chunk is appended and no
\* tenant entry is created.
C13_NoTextLeavesStore ==
    [][IngestsNoText =>
         /\ response'.status = 200
         /\ response'.body.count = 0
         /\ response'.body.ids = << >>
         /\ response'.body.error # None
         /\ user_documents' = user_documents
         /\ user_metadatas' = user_metadatas]_vars

\* an ingest of the unsupported file for a tenant that does not exist has
\* been answered while another tenant holds chunks
C13_Witness ==
    /\ response.req.op = "ingest"
    /\ response.req.path = "notes.md"
    /\ response.req.user_id = "u1"
    /\ response.body.count = 0
    /\ "u1" \notin DOMAIN user_documents
    /\ get_user_document_count(user_documents, DefaultUser) = 2

\* the tenant was never ingested into, or its list is empty
HoldsNoChunks(docs, T) == T \notin DOMAIN docs \/ Len(docs[T]) = 0

\* C14: a query on a tenant that holds no chunks is answered with four
\* empty arrays and status 200 whatever the query text and top_k, and
\* leaves both dicts as they were: the tenant is not created.
C14_UnknownTenantEmpty ==
    [][(/\ response'.req.op = "query"
        /\ HoldsNoChunks(user_documents, response'.req.user_id)) =>
         /\ response'.status = 200
         /\ response'.body = EmptyResult
         /\ user_documents' = user_documents
         /\ user_metadatas' = user_metadatas]_vars

\* a query with a negative top_k on the unknown tenant u1 has been answered
\* while the default tenant holds chunks
C14_Witness ==
    /\ response.req.op = "query"
    /\ response.req.user_id = "u1"
    /\ response.req.top_k < 0
    /\ response.body = EmptyResult
    /\ "u1" \notin DOMAIN user_documents
    /\ get_user_document_count(user_documents, DefaultUser) = 2

(***************************************************************************)
(* Properties of ragPipelineService.py: the two pre-filters.               *)
(***************************************************************************)
\* the documents the answered query run had loaded (a query run writes no file)
LoadedDocs == load_documents(storage_file, metadata_file).documents

\* the query holds a greeting of the lexicon
HasGreeting(query) ==
    \E keyword \in conversational_keywords : Contains(Lower(query), keyword)

\* the query holds a translation trigger term
HasTranslationTerm(query) ==
    \E keyword \in translation_keywords : Contains(Lower(query), keyword)

\* a query run on a corpus that is not empty has printed its result
QueriedCorpus == output.run = "query" /\ LoadedDocs # << >>

C16_TranslationReturnsCorpus ==
    (/\ QueriedCorpus
     /\ HasTranslationTerm(output.query)
     /\ ~(HasGreeting(output.query) /\ SplitCount(output.query) <= 3)) =>
        /\ output.result.ids = List([i \in 1..Len(LoadedDocs) |-> DocId(i - 1)])
        /\ output.result.documents = LoadedDocs
        /\ Len(output.result.metadatas) = Len(LoadedDocs)

\* C17: a query that neither pre-filter answers is answered by rank: when
\* a stored document other than the first equals the query text and the
\* first does not, that document is among those returned.
C17_BestMatchReturned ==
    (/\ QueriedCorpus
     /\ ~HasTranslationTerm(output.query)
     /\ ~(HasGreeting(output.query) /\ SplitCount(output.query) <= 3)) =>
        \A j \in 2..Len(LoadedDocs) :
            (Chars(LoadedDocs[j]) = output.query /\ Chars(LoadedDocs[1]) # output.query)
                => \E n \in 1..Len(output.result.documents) :
                       output.result.documents[n] = LoadedDocs[j]

(***************************************************************************)
(* Properties of the chunking expression and of simple_similarity.         *)
(***************************************************************************)
\* the characters of the chunks, one chunk after the other
RECURSIVE Joined(_)
Joined(chunks) ==
    IF chunks = << >> THEN << >> ELSE Chars(Head(chunks)) \o Joined(Tail(chunks))

\* C18: chunking a non-empty text loses and repeats nothing: every chunk but
\* the last has exactly 1000 characters, the last has between 1 and 1000, no
\* chunk is empty, and the chunks joined in order are the text.
C18_ChunksPartitionText ==
    (call.fn = "chunks" /\ value.done /\ call.text.len > 0) =>
        LET chunks == value.ret
            n == Len(chunks)
        IN  /\ n >= 1
            /\ \A i \in 1..(n - 1) : chunks[i].len = ChunkSize
            /\ chunks[n].len \in 1..ChunkSize
            /\ \A i \in 1..n : chunks[i].len > 0
            /\ Joined(chunks) = Chars(call.text)

\* a text of two whole windows and one more character has been chunked
C18_Witness ==
    /\ call.fn = "chunks"
    /\ value.done
    /\ call.text.len = 2 * ChunkSize + 1
    /\ Len(value.ret) = 3
    /\ value.ret[3].len = 1

\* the scored text has no word token of the scored query
SharesNoWord ==
    WordSet(Lower(call.query)) \cap WordSet(Lower(Chars(call.text))) = {}

\* C19: a chunk that shares no word token with the query never scores above
\* a chunk whose text is the query itself.
C19_OwnTextNotBelowDisjoint ==
    (call.fn = "simple_similarity" /\ value.done /\ SharesNoWord) =>
        RatLeq(value.ret, simple_similarity(call.query, call.query))

\* a chunk without any word of the query has scored above zero, on its
\* characters alone, for a query that has words
C19_Witness ==
    /\ call.fn = "simple_similarity"
    /\ value.done
    /\ SharesNoWord
    /\ WordSet(Lower(call.query)) # {}
    /\ RatLess(<<0, 1>>, value.ret)

\* C20: the score is 0.7 * wordOverlap + 0.3 * sequenceSimilarity, with
\* wordOverlap = |queryTokens \cap chunkTokens| / |queryTokens|, and 0 for a
\* query without word tokens; the score lies in [0, 1].
C20_WeightedSumForEveryQuery ==
    (call.fn = "simple_similarity" /\ value.done) =>
        LET query_lower == Lower(call.query)
            text_lower == Lower(Chars(call.text))
            queryTokens == WordSet(query_lower)
            common == Cardinality(queryTokens \cap WordSet(text_lower))
            total == IF queryTokens = {} THEN 1 ELSE Cardinality(queryTokens)
            seq == SequenceRatio(query_lower, text_lower)
        IN  /\ value.ret = Rat(7 * common * seq[2] + 3 * seq[1] * total,
                               10 * total * seq[2])
            /\ RatLeq(<<0, 1>>, value.ret)
            /\ RatLeq(value.ret, <<1, 1>>)

(***************************************************************************)
(* Properties of ragPipelineService.py: greeting match, filter order and   *)
(* what an ingest run leaves in the storage files.                         *)
(***************************************************************************)
\* kw occurs in s as whole word(s): no word character right before or after
ContainsWord(s, kw) ==
    \E i \in 0..(Len(s) - Len(kw)) :
        /\ \A j \in 1..Len(kw) : s[i + j] = kw[j]
        /\ i = 0 \/ ~IsWordChar(s[i])
        /\ i + Len(kw) = Len(s) \/ ~IsWordChar(s[i + Len(kw) + 1])

\* the query holds a greeting of the lexicon as whole word(s)
HasGreetingWord(query) ==
    \E keyword \in conversational_keywords : ContainsWord(Lower(query), keyword)

\* C27: on a non-empty corpus, a query of at most 3 tokens that holds no
\* greeting of the lexicon as whole word(s) is not stopped by the greeting
\* filter: it is answered with documents.
C27_GreetingMatchesWholeWords ==
    (/\ QueriedCorpus
     /\ SplitCount(output.query) <= 3
     /\ ~HasGreetingWord(output.query)) =>
        output.result.documents # << >>

\* C28: the greeting filter comes before the translation filter: a query of
\* at most 3 tokens that holds a greeting and a translation term is answered
\* with four empty arrays, never with the corpus; and on an empty corpus
\* every query is answered with four empty arrays.
C28_GreetingBeforeTranslation ==
    output.run = "query" =>
        /\ (/\ HasGreeting(output.query)
            /\ HasTranslationTerm(output.query)
            /\ SplitCount(output.query) <= 3) => output.result = EmptyCliResult
        /\ LoadedDocs = << >> => output.result = EmptyCliResult

\* "hi translate" has been answered with four empty arrays on a corpus that
\* is not empty
C28_Witness ==
    /\ QueriedCorpus
    /\ HasGreetingWord(output.query)
    /\ HasTranslationTerm(output.query)
    /\ SplitCount(output.query) = 2
    /\ output.result = EmptyCliResult

\* the document list document_storage.json holds
PersistedDocs(sf) == IF sf.format = "list" THEN sf.items ELSE << >>

\* the metadata entries document_metadata.json holds
PersistedMeta(mf) == IF mf.format \in {"list", "dict"} THEN mf.items ELSE << >>

\* C29: an ingest run that extracts content leaves, in document_storage.json,
\* the list persisted before followed by the new document, and in
\* document_metadata.json the entries persisted before followed by the new
\* entry, whatever the two files held at load time; a run that extracts no
\* content leaves both files as they were.
C29_IngestKeepsPersisted ==
    [][/\ (output'.run = "ingest" /\ output'.message = "Successfully processed") =>
            /\ storage_file'.format = "list"
            /\ Len(storage_file'.items) = Len(PersistedDocs(storage_file)) + 1
            /\ SubSeq(storage_file'.items, 1, Len(PersistedDocs(storage_file)))
                   = PersistedDocs(storage_file)
            /\ storage_file'.items[Len(storage_file'.items)]
                   = FileAt(output'.file_path).text
            /\ metadata_file'.format = "list"
            /\ Len(metadata_file'.items) = Len(PersistedMeta(metadata_file)) + 1
            /\ SubSeq(metadata_file'.items, 1, Len(PersistedMeta(metadata_file)))
                   = PersistedMeta(metadata_file)
            /\ metadata_file'.items[Len(metadata_file'.items)].source = output'.file_path
       /\ (output'.run = "ingest" /\ output'.message # "Successfully processed") =>
            UNCHANGED <<storage_file, metadata_file>>]_vars

(***************************************************************************)
(* Properties of the service: the counts of /health and /stats.            *)
(***************************************************************************)
\* C30: the count that /health and /stats report is the number of chunks
\* stored, summed over all tenants.
C30_CountsAreChunkTotals ==
    /\ response.req.op = "health" =>
           response.body.documents_count = TotalChunks(user_documents)
    /\ response.req.op = "stats" =>
           response.body.total_documents = TotalChunks(user_documents)

(***************************************************************************)
(* Properties of LocalRAG.                                                 *)
(***************************************************************************)
\* the reply to an add_documents call or an /ingest request that reached
\* self.model.encode
AddEncoded(reply) ==
    /\ reply.req.op \in {"add_documents", "ingest"}
    /\ reply.status # 400
    /\ ~(reply.body.raised = "" /\ reply.body.ret.count = 0)

\* C21: an add_documents call whose embeddings have another dimension than
\* the index the store already has raises an error and leaves documents,
\* metadatas, embeddings and the index as they were (so the count and every
\* later query are as before the call).
C21_DimensionMismatchLeavesStore ==
    [][(/\ AddEncoded(response')
        /\ ~rag.index.is_none
        /\ ~response'.body.enc.raised
        /\ response'.body.enc.d # rag.index.d) =>
            /\ response'.status = 500
            /\ rag' = rag]_vars

\* a store that holds chunks has refused rows of another dimension
C21_Witness ==
    /\ AddEncoded(response)
    /\ response.body.raised = "ValueError"
    /\ response.body.enc.d # rag.index.d
    /\ Len(rag.documents) > 0

\* C22: when self.model.encode fails, add_documents ends with the exception
\* and nothing is appended: documents, metadatas, embeddings and the index
\* are as before the call.
C22_EncodeFailureAppendsNothing ==
    [][(AddEncoded(response') /\ response'.body.enc.raised) =>
            /\ response'.status = 500
            /\ rag' = rag]_vars

\* encode has failed on a store that holds chunks
C22_Witness ==
    /\ AddEncoded(response)
    /\ response.body.raised = "EncodeError"
    /\ Len(rag.documents) > 0

C26_AtMostCountResults ==
    (response.req.op = "query" /\ response.status = 200 /\ "indices" \in DOMAIN response.body) =>
        LET count == Len(rag.documents)
            indices == response.body.indices
        IN  /\ Len(response.body.ret.documents) <= Max(0, Min(response.req.top_k, count))
            /\ \A a \in 1..Len(indices) : indices[a] \in 0..(count - 1)
            /\ \A a, b \in 1..Len(indices) : a # b => indices[a] # indices[b]

(***************************************************************************)
(* Properties of rag_impl.py behind app.py.                                *)
(***************************************************************************)
\* C23: when the collaborator fails during an ingest, the request ends with
\* a returned result that carries count 0 and an error, not with an
\* exception.
C23_IngestFailureIsAResult ==
    [][(/\ pending.pc = "waiting"
        /\ pending.call = "add_texts"
        /\ pending.fate = "raises"
        /\ pending' = NotPending) =>
            /\ response'.status = 200
            /\ response'.body.count = 0
            /\ "error" \in DOMAIN response'.body]_vars

\* C24: a request that waits for a collaborator ends, also when the
\* collaborator never returns.
C24_CollaboratorCallsEnd ==
    (pending.pc = "waiting") ~> (pending = NotPending)

=============================================================================
